---- MODULE Spec2Model ----
(***************************************************************************)
(* A model of the Shapiro schema server (src/shapiro_server.py): the       *)
(* content root, the three housekeeper threads, the startup and shutdown   *)
(* handlers and the request handlers that read the quarantine map and the  *)
(* knowledge graph.                                                        *)
(*                                                                         *)
(* Strings are sequences of one-character strings, so that the slicing,    *)
(* find and lower operations of the code are computed and not assumed.     *)
(***************************************************************************)
EXTENDS Integers, Sequences, FiniteSets, TLC

----------------------------------------------------------------------------
(* Bounds of the model *)

\* number of writes/deletions the environment performs on the content root
MaxMods == 1

----------------------------------------------------------------------------
(* Python string primitives *)

Min(a, b) == IF a < b THEN a ELSE b
Max(a, b) == IF a > b THEN a ELSE b

\* an index of a slice, clamped the way Python clamps it
PyIndex(k, n) == IF k < 0 THEN Max(n + k, 0) ELSE Min(k, n)

\* s[i:j]
PySlice(s, i, j) ==
    LET a == PyIndex(i, Len(s))
        b == PyIndex(j, Len(s))
    IN  IF a >= b THEN <<>> ELSE SubSeq(s, a + 1, b)

\* the 0-based positions at which sub occurs in s
Occurrences(s, sub) ==
    { i \in 0..(Len(s) - Len(sub)) : SubSeq(s, i + 1, i + Len(sub)) = sub }

\* s.find(sub)
PyFind(s, sub) ==
    IF Occurrences(s, sub) = {} THEN -1
    ELSE CHOOSE i \in Occurrences(s, sub) : \A j \in Occurrences(s, sub) : i <= j

\* s.rfind(sub)
PyRFind(s, sub) ==
    IF Occurrences(s, sub) = {} THEN -1
    ELSE CHOOSE i \in Occurrences(s, sub) : \A j \in Occurrences(s, sub) : i >= j

\* s.endswith(sub)
PyEndsWith(s, sub) ==
    Len(sub) <= Len(s) /\ SubSeq(s, Len(s) - Len(sub) + 1, Len(s)) = sub

\* the capitals and the small letters
Capitals ==
    <<"A", "B", "C", "D", "E", "F", "G", "H", "I", "J", "K", "L", "M",
      "N", "O", "P", "Q", "R", "S", "T", "U", "V", "W", "X", "Y", "Z">>
SmallLetters ==
    <<"a", "b", "c", "d", "e", "f", "g", "h", "i", "j", "k", "l", "m",
      "n", "o", "p", "q", "r", "s", "t", "u", "v", "w", "x", "y", "z">>

\* c.lower() of one character
LowerChar(c) ==
    IF \E i \in 1..26 : Capitals[i] = c
    THEN SmallLetters[CHOOSE i \in 1..26 : Capitals[i] = c]
    ELSE c

\* s.lower()
PyLower(s) == [i \in 1..Len(s) |-> LowerChar(s[i])]

----------------------------------------------------------------------------
(* Configuration of the server *)

CONTENT_DIR == <<"c", "/">>
BASE_URL == <<"b", "/">>

SUFFIX_JSONLD == <<".", "j", "s", "o", "n", "l", "d">>
SUFFIX_TTL == <<".", "t", "t", "l">>
SUPPORTED_SUFFIXES == <<SUFFIX_JSONLD, SUFFIX_TTL>>

\* the schema files the content root may hold: c/p.ttl and c/p/q.jsonld
FileP == CONTENT_DIR \o <<"p">> \o SUFFIX_TTL
FileQ == CONTENT_DIR \o <<"p", "/", "q">> \o SUFFIX_JSONLD
FileNames == {FileP, FileQ}

\* the order in which os.walk lists the files
WalkOrder == <<FileP, FileQ>>

get_suffix(full_name) ==
    PySlice(full_name, PyRFind(full_name, <<".">>), Len(full_name))

get_schema_path(full_name) ==
    PySlice(full_name, Len(CONTENT_DIR), Len(full_name) - Len(get_suffix(full_name)))

----------------------------------------------------------------------------
(* Contents of schema files: whether rdflib parses the text, and the       *)
(* triples it yields.  A triple is <<subject, predicate, object>>.         *)

\* no file of that name
Absent == [exists |-> FALSE, parses |-> FALSE, triples |-> {}]

RdfType == <<"a">>
RdfsClass == <<"k">>

\* a syntax error: Graph().parse raises
ContentBroken == [exists |-> TRUE, parses |-> FALSE, triples |-> {}]
\* a schema rooted at b/p: it has its origin at c/p.ttl, not at c/p/q.jsonld
ContentP ==
    [exists |-> TRUE, parses |-> TRUE, triples |-> {<< <<"b", "/", "p", "/", "A">>, RdfType, RdfsClass >>}]
\* a schema rooted at b/p/q, the host written in upper case: b/p/q contains
\* b/p, so it has its origin both at c/p/q.jsonld and at c/p.ttl
ContentQ ==
    [exists |-> TRUE, parses |-> TRUE, triples |-> {<< <<"B", "/", "p", "/", "q", "/", "C">>, RdfType, RdfsClass >>}]

Contents == {ContentBroken, ContentP, ContentQ}

----------------------------------------------------------------------------
(* The dictionary BAD_SCHEMAS: entries [key, reason] in insertion order *)

Keys(d) == {d[i].key : i \in DOMAIN d}

DictGet(d, k) == (CHOOSE i \in DOMAIN d : d[i].key = k)

DictDel(d, k) == SelectSeq(d, LAMBDA e : e.key # k)

DictAdd(d, k, v) == Append(d, [key |-> k, reason |-> v])

----------------------------------------------------------------------------
(* The state *)

\* Python's None is the empty sequence, a value x is <<x>>
None == <<>>
Some(x) == <<x>>

Housekeepers == {"bad", "search", "ekg"}

\* the list HOUSEKEEPERS that init() builds and starts in order
HOUSEKEEPERS == <<"bad", "search", "ekg">>

VARIABLES
    fs,                   \* content root: file name -> content, or Absent
    mtime,                \* st_mtime of each file
    clock,                \* datetime.now(): the number of changes of the content root so far
    BAD_SCHEMAS,          \* the quarantine map
    EKG,                  \* the knowledge graph: None, or a set of triples
    index,                \* the full_name of the committed documents of the search index
    writer,               \* the full_name of the documents of the open index writer
    initPc,               \* where init()/shutdown() stand
    started,              \* Thread.start() was called
    stopped,              \* the Event 'stopped' of each housekeeper
    pc,                   \* where each housekeeper stands
    last_execution_time,  \* of each housekeeper
    listing,              \* the files os.walk listed that are still to be visited
    schemas,              \* the schemas still to be handled by perform_housekeeping_on
    iter,                 \* get_badschema_list in flight: its iterator over BAD_SCHEMAS.keys()
    response,             \* the response the client has received last, None once it is read
    \* history variables
    vetted,               \* the files BadSchemaHousekeeping has checked since their last change
    verdicts,             \* the results of the last pass of BadSchemaHousekeeping
    ekgOld,               \* the knowledge graph that the last rebuild replaced
    observed,             \* the graph a query has seen during the last rebuild
    \* the surroundings of the content root, and calls of single functions
    outside,              \* a file named like the content root, with a schema suffix, lies beside it
    call,                 \* the function called and its argument, None when none is
    ret,                  \* what the call returned, None when no call is made
    \* the routes of the application
    routes,               \* app.routes: the names of the routes, in matching order
    ROUTES,               \* the saved original list of routes, None before the first call
    features,             \* the argument of the last call of activate_routes, None before
    \* validation
    reports,              \* the schemas the response of validate holds a report for, None without one
    \* the modeller
    model_graph           \* Model.graph: the nodes, and the edges in the order they were added

hkVars == <<started, stopped, pc, last_execution_time, listing, schemas>>
storeVars == <<BAD_SCHEMAS, EKG, index, writer>>
fsVars == <<fs, mtime, clock>>
reqVars == <<iter, response>>
ekgHist == <<ekgOld, observed>>
routeVars == <<routes, ROUTES, features>>
appVars == <<outside, call, ret, routeVars, reports, model_graph>>
vars == <<fs, mtime, clock, BAD_SCHEMAS, EKG, index, writer, initPc,
          started, stopped, pc, last_execution_time, listing, schemas,
          iter, response, vetted, verdicts, ekgOld, observed,
          outside, call, ret, routes, ROUTES, features, reports, model_graph>>

\* the routes of the application in the order of their decorators, after the
\* four routes FastAPI() creates: the name of the endpoint, its method, the
\* segments its path begins with and what follows them ("" nothing, "name"
\* one segment, "path" the rest of the URL)
Route(name, method, prefix, tail) ==
    [name |-> name, method |-> method, prefix |-> prefix, tail |-> tail]

AppRoutes ==
    << Route("openapi", "GET", <<"openapi.json">>, ""),
       Route("swagger_ui_html", "GET", <<"docs">>, ""),
       Route("swagger_ui_redirect", "GET", <<"docs", "oauth2-redirect">>, ""),
       Route("redoc_html", "GET", <<"redoc">>, ""),
       Route("get_static_resource", "GET", <<"static">>, "name"),
       Route("welcome", "GET", <<"welcome", "">>, ""),
       Route("version", "GET", <<"version", "">>, ""),
       Route("get_schema_list", "GET", <<"schemas", "">>, ""),
       Route("get_badschema_list", "GET", <<"badschemas", "">>, ""),
       Route("search", "GET", <<"search", "">>, ""),
       Route("query_page", "GET", <<"query", "">>, ""),
       Route("query", "POST", <<"query", "">>, ""),
       Route("get_schema", "GET", <<>>, "path"),
       Route("validate", "POST", <<"validate">>, "path") >>

\* the files os.walk finds, in the order it lists them
Listed(files) == SelectSeq(WalkOrder, LAMBDA f : files[f] # Absent)

\* the state of the module when init() is entered
Start ==
    /\ fs \in [FileNames -> Contents \cup {Absent}]
    /\ mtime = [f \in FileNames |-> 0]
    /\ clock = 0
    /\ BAD_SCHEMAS = <<>>
    /\ EKG = None
    /\ index = {}
    /\ writer = {}
    /\ initPc = "pass"
    /\ started = [h \in Housekeepers |-> FALSE]
    /\ stopped = [h \in Housekeepers |-> FALSE]
    /\ pc = [h \in Housekeepers |-> IF h = "bad" THEN "walk" ELSE "new"]
    /\ last_execution_time = [h \in Housekeepers |-> None]
    /\ listing = [h \in Housekeepers |-> <<>>]
    /\ schemas = [h \in Housekeepers |-> <<>>]
    /\ iter = None
    /\ response = None
    /\ vetted = {}
    /\ verdicts = [f \in FileNames |-> ""]
    /\ ekgOld = None
    /\ observed = None
    /\ call = None
    /\ ret = None
    /\ routes = AppRoutes
    /\ ROUTES = None
    /\ features = None
    /\ reports = None
    /\ model_graph = [nodes |-> {}, edges |-> <<>>]

\* the content root has no namesake beside it
Init == Start /\ outside = FALSE

----------------------------------------------------------------------------
(* The environment: schema files are written and deleted *)

WriteFile(f, c) ==
    /\ clock < MaxMods
    /\ fs[f] # c
    /\ clock' = clock + 1
    /\ fs' = [fs EXCEPT ![f] = c]
    /\ mtime' = [mtime EXCEPT ![f] = clock + 1]
    /\ vetted' = vetted \ {f}
    /\ UNCHANGED <<appVars, storeVars, initPc, hkVars, reqVars, verdicts, ekgHist>>

DeleteFile(f) ==
    /\ clock < MaxMods
    /\ fs[f] # Absent
    /\ clock' = clock + 1
    /\ fs' = [fs EXCEPT ![f] = Absent]
    /\ vetted' = vetted \ {f}
    /\ UNCHANGED <<appVars, mtime, storeVars, initPc, hkVars, reqVars, verdicts, ekgHist>>

----------------------------------------------------------------------------
(* SchemaHousekeeping: the thread and its cycle *)

\* Thread.run has raised (or, for the synchronous pass of init(), init has)
Crash(h) ==
    /\ pc' = [pc EXCEPT ![h] = "crashed"]
    /\ initPc' = IF started[h] THEN initPc ELSE "failed"

\* check_for_schema_updates returns: the thread goes to stopped.wait, and the
\* synchronous pass of init() goes on to start the threads
EndCycle(h) ==
    /\ pc' = [pc EXCEPT ![h] = IF started[h] THEN "wait" ELSE "new"]
    /\ initPc' = IF started[h] THEN initPc ELSE "start"

\* the loop of run() without the test of the event
LoopForever(h) ==
    /\ started[h]
    /\ pc[h] \in {"run", "wait"}
    /\ pc' = [pc EXCEPT ![h] = "walk"]
    /\ UNCHANGED <<appVars, fsVars, reqVars, vetted, verdicts, ekgHist, storeVars, initPc,
                   started, stopped, last_execution_time, listing, schemas>>

\* the test of 'while not self.stopped.is_set()', on entry of run() and when
\* stopped.wait returns (set, or timed out)
LoopTest(h) ==
    /\ started[h]
    /\ pc[h] \in {"run", "wait"}
    /\ pc' = [pc EXCEPT ![h] = IF stopped[h] THEN "done" ELSE "walk"]
    /\ UNCHANGED <<appVars, fsVars, reqVars, vetted, verdicts, ekgHist, storeVars, initPc, started, stopped,
                   last_execution_time, listing, schemas>>

\* walk_schemas(CONTENT_DIR, self.check_schema): os.walk lists the files
WalkList(h) ==
    /\ pc[h] = "walk"
    /\ pc' = [pc EXCEPT ![h] = "stat"]
    /\ listing' = [listing EXCEPT ![h] = Listed(fs)]
    /\ schemas' = [schemas EXCEPT ![h] = <<>>]
    /\ UNCHANGED <<appVars, fsVars, reqVars, vetted, verdicts, ekgHist, storeVars, initPc, started, stopped, last_execution_time>>

\* check_schema: is the file modified since the last cycle
IsModified(last, mod_time) == last = None \/ last[1] < mod_time

\* walk_schemas visits the next listed file with check_schema; os.stat raises
\* when the file is gone
check_schema(h) ==
    /\ pc[h] = "stat"
    /\ listing[h] # <<>>
    /\ LET full_name == Head(listing[h]) IN
       IF fs[full_name] = Absent
       THEN /\ Crash(h)
            /\ UNCHANGED <<listing, schemas>>
       ELSE /\ listing' = [listing EXCEPT ![h] = Tail(@)]
            /\ schemas' = [schemas EXCEPT ![h] =
                  IF IsModified(last_execution_time[h], mtime[full_name])
                  THEN Append(@, full_name) ELSE @]
            /\ UNCHANGED <<pc, initPc>>
    /\ UNCHANGED <<appVars, fsVars, reqVars, vetted, verdicts, ekgHist, storeVars, started, stopped, last_execution_time>>

----------------------------------------------------------------------------
(* BadSchemaHousekeeping *)

\* the file could not be parsed, or no subject, predicate or object of its
\* triples contains BASE_URL + its schema path when both are put in lower case
FailsCheck(full_name, content) ==
    \/ content = Absent
    \/ ~content.parses
    \/ \A t \in content.triples : \A i \in 1..3 :
          Occurrences(PyLower(t[i]), PyLower(BASE_URL \o get_schema_path(full_name))) = {}

\* the same with the strings compared as they are
FailsLiteral(full_name, content) ==
    \/ content = Absent
    \/ ~content.parses
    \/ \A t \in content.triples : \A i \in 1..3 :
          Occurrences(t[i], BASE_URL \o get_schema_path(full_name)) = {}

\* what the history variable 'verdicts' records of a check: "failed",
\* "passed", or "folded" when the file passes in lower case only
Verdict(full_name, content) ==
    IF FailsCheck(full_name, content) THEN "failed"
    ELSE IF FailsLiteral(full_name, content) THEN "folded"
    ELSE "passed"

\* does a triple refer to the path
Refers(t, path) ==
    \E i \in 1..3 : PyFind(PyLower(t[i]), PyLower(path)) > -1

\* the check without the test of the origin
CheckSyntaxOnly(full_name, content) ==
    IF content = Absent THEN "no such file"
    ELSE IF ~content.parses THEN "syntax error"
    ELSE "ok"

\* the body of the try block: "ok", or the exception raised
CheckSchemaFile(full_name, content) ==
    LET schema_path == get_schema_path(full_name)
        path == IF Len(schema_path) > 0 /\ schema_path[1] = "/"
                THEN BASE_URL \o PySlice(schema_path, 1, Len(schema_path))
                ELSE BASE_URL \o schema_path
    IN  IF content = Absent THEN "no such file"
        ELSE IF ~content.parses THEN "syntax error"
        ELSE IF \A t \in content.triples : ~Refers(t, path) THEN "no origin"
        ELSE "ok"

\* the update that replaces the map by the entry of a failing schema
QuarantineAlone(bad, full_name, verdict) ==
    IF verdict = "ok"
    THEN IF full_name \in Keys(bad) THEN DictDel(bad, full_name) ELSE bad
    ELSE IF full_name \notin Keys(bad) THEN DictAdd(<<>>, full_name, verdict) ELSE bad

\* the update of BAD_SCHEMAS for one schema
Quarantine(bad, full_name, verdict) ==
    IF verdict = "ok"
    THEN IF full_name \in Keys(bad) THEN DictDel(bad, full_name) ELSE bad
    ELSE IF full_name \notin Keys(bad) THEN DictAdd(bad, full_name, verdict) ELSE bad

\* last_execution_time = datetime.now(); perform_housekeeping_on(schemas_to_check)
BadBegin ==
    /\ pc["bad"] = "stat"
    /\ listing["bad"] = <<>>
    /\ last_execution_time' = [last_execution_time EXCEPT !["bad"] = Some(clock)]
    /\ verdicts' = [f \in FileNames |->
                      IF \E i \in DOMAIN schemas["bad"] : schemas["bad"][i] = f
                      THEN "pending" ELSE ""]
    /\ IF schemas["bad"] = <<>>
       THEN EndCycle("bad")
       ELSE /\ pc' = [pc EXCEPT !["bad"] = "perform"]
            /\ UNCHANGED initPc
    /\ UNCHANGED <<appVars, fsVars, reqVars, vetted, ekgHist, storeVars, started, stopped, listing, schemas>>

\* one iteration of 'for full_name in schemas'
BadPerform ==
    /\ pc["bad"] = "perform"
    /\ LET full_name == Head(schemas["bad"])
           verdict == CheckSchemaFile(full_name, fs[full_name])
       IN  /\ BAD_SCHEMAS' = Quarantine(BAD_SCHEMAS, full_name, verdict)
           /\ verdicts' = [verdicts EXCEPT ![full_name] = Verdict(full_name, fs[full_name])]
           /\ vetted' = IF fs[full_name] # Absent THEN vetted \cup {full_name} ELSE vetted
    /\ schemas' = [schemas EXCEPT !["bad"] = Tail(@)]
    /\ IF Len(schemas["bad"]) = 1
       THEN EndCycle("bad")
       ELSE UNCHANGED <<pc, initPc>>
    /\ UNCHANGED <<appVars, fsVars, reqVars, ekgHist, EKG, index, writer, started, stopped,
                   last_execution_time, listing>>

----------------------------------------------------------------------------
(* SearchIndexHousekeeping *)

\* writer.commit(): the documents of the writer are added to the index
Commit(idx, w) == idx \cup w

NoDocs == {}

\* last_execution_time = datetime.now(); writer = self.index.writer()
SearchBegin ==
    /\ pc["search"] = "stat"
    /\ listing["search"] = <<>>
    /\ last_execution_time' = [last_execution_time EXCEPT !["search"] = Some(clock)]
    /\ IF schemas["search"] = <<>>
       THEN /\ writer' = NoDocs
            /\ index' = Commit(index, NoDocs)
            /\ EndCycle("search")
       ELSE /\ writer' = NoDocs
            /\ pc' = [pc EXCEPT !["search"] = "perform"]
            /\ UNCHANGED <<index, initPc>>
    /\ UNCHANGED <<appVars, fsVars, reqVars, vetted, verdicts, ekgHist, BAD_SCHEMAS, EKG, started, stopped, listing, schemas>>

\* one iteration of 'for s in schemas' (open raises when the file is gone), and
\* writer.commit() after the last one
SearchPerform ==
    /\ pc["search"] = "perform"
    /\ LET s == Head(schemas["search"])
           last == Len(schemas["search"]) = 1
       IN
       IF s \notin Keys(BAD_SCHEMAS) /\ fs[s] = Absent
       THEN /\ Crash("search")
            /\ UNCHANGED <<index, writer, schemas>>
       ELSE /\ writer' = IF s \notin Keys(BAD_SCHEMAS)
                         THEN writer \cup {s} ELSE writer
            /\ schemas' = [schemas EXCEPT !["search"] = Tail(@)]
            /\ IF last
               THEN /\ index' = Commit(index, writer')
                    /\ EndCycle("search")
               ELSE UNCHANGED <<index, pc, initPc>>
    /\ UNCHANGED <<appVars, fsVars, reqVars, vetted, verdicts, ekgHist, BAD_SCHEMAS, EKG, started, stopped,
                   last_execution_time, listing>>

----------------------------------------------------------------------------
(* EKGHouseKeeping *)

\* last_execution_time = datetime.now(); perform_housekeeping_on: EKG = Graph()
\* and os.walk lists the files for add_schema
EKGBegin ==
    /\ pc["ekg"] = "stat"
    /\ listing["ekg"] = <<>>
    /\ last_execution_time' = [last_execution_time EXCEPT !["ekg"] = Some(clock)]
    /\ IF EKG = None \/ Len(schemas["ekg"]) > 0
       THEN /\ EKG' = Some({})
            /\ ekgOld' = EKG
            /\ observed' = None
            /\ listing' = [listing EXCEPT !["ekg"] = Listed(fs)]
            /\ IF Listed(fs) = <<>>
               THEN EndCycle("ekg")
               ELSE /\ pc' = [pc EXCEPT !["ekg"] = "rebuild"]
                    /\ UNCHANGED initPc
       ELSE /\ EndCycle("ekg")
            /\ UNCHANGED <<EKG, listing, ekgHist>>
    /\ schemas' = [schemas EXCEPT !["ekg"] = <<>>]
    /\ UNCHANGED <<appVars, fsVars, reqVars, vetted, verdicts, BAD_SCHEMAS, index, writer, started, stopped>>

\* the graph after EKG.parse of one file inside the try block
Ingest(graph, bad, full_name, content) ==
    IF full_name \notin Keys(bad) /\ content # Absent /\ content.parses
    THEN graph \cup content.triples
    ELSE graph

\* walk_schemas visits the next listed file with add_schema
add_schema ==
    /\ pc["ekg"] = "rebuild"
    /\ LET full_name == Head(listing["ekg"]) IN
       EKG' = Some(Ingest(EKG[1], BAD_SCHEMAS, full_name, fs[full_name]))
    /\ listing' = [listing EXCEPT !["ekg"] = Tail(@)]
    /\ IF Len(listing["ekg"]) = 1
       THEN EndCycle("ekg")
       ELSE UNCHANGED <<pc, initPc>>
    /\ UNCHANGED <<appVars, fsVars, reqVars, vetted, verdicts, ekgHist, BAD_SCHEMAS, index, writer, started, stopped,
                   last_execution_time, schemas>>

----------------------------------------------------------------------------
(* init() and shutdown() *)

\* the threads started without waiting for the synchronous pass
StartThreadEarly ==
    /\ initPc \in {"pass", "start"}
    /\ \E h \in Housekeepers : ~started[h]
    /\ LET i == CHOOSE k \in 1..Len(HOUSEKEEPERS) :
                   /\ ~started[HOUSEKEEPERS[k]]
                   /\ \A j \in 1..(k - 1) : started[HOUSEKEEPERS[j]]
           h == HOUSEKEEPERS[i]
       IN  /\ started' = [started EXCEPT ![h] = TRUE]
           /\ pc' = [pc EXCEPT ![h] = IF pc[h] = "new" THEN "run" ELSE pc[h]]
           /\ initPc' = IF i = Len(HOUSEKEEPERS) /\ initPc = "start" THEN "up" ELSE initPc
    /\ UNCHANGED <<appVars, fsVars, reqVars, vetted, verdicts, ekgHist, storeVars, stopped,
                   last_execution_time, listing, schemas>>

\* 'for h in HOUSEKEEPERS: h.start()', one thread per step
StartThread ==
    /\ initPc = "start"
    /\ LET i == CHOOSE k \in 1..Len(HOUSEKEEPERS) :
                   /\ ~started[HOUSEKEEPERS[k]]
                   /\ \A j \in 1..(k - 1) : started[HOUSEKEEPERS[j]]
           h == HOUSEKEEPERS[i]
       IN  /\ started' = [started EXCEPT ![h] = TRUE]
           /\ pc' = [pc EXCEPT ![h] = "run"]
           /\ initPc' = IF i = Len(HOUSEKEEPERS) THEN "up" ELSE "start"
    /\ UNCHANGED <<appVars, fsVars, reqVars, vetted, verdicts, ekgHist, storeVars, stopped, last_execution_time, listing, schemas>>

\* 'for h in HOUSEKEEPERS: h.stop()'
shutdown ==
    /\ initPc = "up"
    /\ initPc' = "down"
    /\ stopped' = [h \in Housekeepers |-> TRUE]
    /\ UNCHANGED <<appVars, fsVars, reqVars, vetted, verdicts, ekgHist, storeVars, started, pc, last_execution_time, listing, schemas>>

----------------------------------------------------------------------------
(* Content negotiation.  An Accept header is None, or the sequence of its   *)
(* comma-separated items; an item is its media type, its q parameter in     *)
(* tenths (None when it has none) and whether it has other parameters.      *)

MIME_HTML == "text/html"
MIME_JSONLD == "application/ld+json"
MIME_TTL == "text/turtle"
MIME_JSONSCHEMA == "application/schema+json"
MIME_JSON == "application/json"
MIME_DEFAULT == MIME_JSONSCHEMA

\* m.lower() of the media types of the model
MimeLower(m) ==
    CASE m = "TEXT/HTML" -> "text/html"
      [] m = "Text/Turtle" -> "text/turtle"
      [] OTHER -> m

SUPPORTED_MIME_TYPES ==
    {MimeLower(MIME_JSONLD), MimeLower(MIME_TTL), MimeLower(MIME_HTML),
     MimeLower(MIME_JSONSCHEMA)}

Item(m, q, other) == [mime |-> m, q |-> q, other |-> other]

\* the items of the header: None is replaced by "", whose split is [""]
HeaderItems(accept_header) ==
    IF accept_header = None THEN <<Item("", None, FALSE)>> ELSE accept_header[1]

\* the q-bucket an item is put in: 1.0 without parameters, its q parameter,
\* or no bucket when it has parameters none of which is q
Bucket(item) ==
    IF item.q = None /\ ~item.other THEN Some(10) ELSE item.q

RECURSIVE RankFrom(_, _)
\* the buckets from weight w downwards, concatenated
RankFrom(items, w) ==
    IF w < 0 THEN <<>>
    ELSE [i \in 1..Len(SelectSeq(items, LAMBDA it : Bucket(it) = Some(w))) |->
             SelectSeq(items, LAMBDA it : Bucket(it) = Some(w))[i].mime]
         \o RankFrom(items, w - 1)

get_ranked_mime_types(accept_header) == RankFrom(HeaderItems(accept_header), 10)

find_preferred_mime(accept_header) ==
    LET ranked == get_ranked_mime_types(accept_header)
        hits == {i \in DOMAIN ranked : MimeLower(ranked[i]) \in SUPPORTED_MIME_TYPES}
    IN  IF hits = {} THEN None
        ELSE Some(ranked[CHOOSE i \in hits : \A j \in hits : i <= j])

negotiate(accept_header) ==
    LET preferred == find_preferred_mime(accept_header)
    IN  IF preferred = None THEN MIME_DEFAULT ELSE preferred[1]

\* MIME_HTML.lower() in accept_header.lower()
MentionsHtml(accept_header) ==
    \E i \in DOMAIN accept_header[1] :
        MimeLower(accept_header[1][i].mime) = MimeLower(MIME_HTML)

\* the Accept headers of the requests of the model
AcceptHeaders ==
    { None,
      Some(<<Item("application/ld+json", None, FALSE)>>),
      Some(<<Item("text/turtle", None, FALSE)>>),
      Some(<<Item("text/html", None, FALSE)>>),
      Some(<<Item("application/schema+json", None, FALSE)>>),
      Some(<<Item("text/html", Some(5), FALSE), Item("text/turtle", None, FALSE)>>),
      Some(<<Item("*/*", None, FALSE)>>) }

----------------------------------------------------------------------------
(* Path mapping *)

\* the file beside the content root that is named like it
Namesake == PySlice(CONTENT_DIR, 0, Len(CONTENT_DIR) - 1) \o SUFFIX_TTL

\* the file a name means to the operating system: slashes that follow a
\* slash count for nothing
RECURSIVE RealName(_)
RealName(name) ==
    IF Len(name) < 2 THEN name
    ELSE IF name[1] = "/" /\ name[2] = "/" THEN RealName(Tail(name))
    ELSE <<name[1]>> \o RealName(Tail(name))

\* os.path.isfile
isfile(name) ==
    \/ RealName(name) \in FileNames /\ fs[RealName(name)] # Absent
    \/ name = Namesake /\ outside

\* the existing files among the names prefix+suffix, in the order of the suffixes
Existing(prefix) ==
    SelectSeq([i \in 1..Len(SUPPORTED_SUFFIXES) |-> prefix \o SUPPORTED_SUFFIXES[i]],
              isfile)

\* the list 'candidates' of map_filename
Candidates(path) ==
    LET full_path == CONTENT_DIR \o path
        pruned_path == PySlice(full_path, 0, PyRFind(full_path, <<"/">>))
    IN  Existing(full_path) \o Existing(pruned_path)

\* the file the path maps to, None when there is none or more than one
map_filename(path) ==
    IF Len(Candidates(path)) = 1 THEN Some(Candidates(path)[1]) ELSE None

----------------------------------------------------------------------------
(* GET /{schema_path}: get_schema, resolve and convert *)

\* what a function does: it returns a value, or raises an exception
Return(content, mime_type) == [raises |-> "", content |-> content, mime_type |-> mime_type]
Raise(x) == [raises |-> x, content |-> "", mime_type |-> ""]

\* the renderers load the graph from the IRI; they raise NotFoundException
\* when it cannot be parsed
Render(content, what, mime_type) ==
    IF content.parses THEN Return(what, mime_type) ELSE Raise("NotFoundException")

\* Graph().parse(filename) followed by g.serialize
Reserialize(content, mime_type) ==
    IF content.parses THEN Return("serialized", mime_type) ELSE Raise("Exception")

\* convert with the test of the quarantine map after the HTML branch
convert_html_first(path, filename, content, mime_type) ==
    IF mime_type = MIME_HTML THEN Render(content, "html page", mime_type)
    ELSE IF filename \in Keys(BAD_SCHEMAS) THEN Raise("BadSchemaException")
    ELSE IF mime_type = MIME_JSONLD /\ PyEndsWith(filename, SUFFIX_JSONLD)
         THEN Return("file content", mime_type)
    ELSE Render(content, "json schema", mime_type)

convert(path, filename, content, mime_type) ==
    IF filename \in Keys(BAD_SCHEMAS) THEN Raise("BadSchemaException")
    ELSE IF mime_type = MIME_HTML THEN Render(content, "html page", mime_type)
    ELSE IF mime_type = MIME_JSONLD /\ PyEndsWith(filename, SUFFIX_JSONLD)
         THEN Return("file content", mime_type)
    ELSE IF mime_type = MIME_JSONLD /\ PyEndsWith(filename, SUFFIX_TTL)
         THEN Reserialize(content, mime_type)
    ELSE IF mime_type = MIME_TTL /\ PyEndsWith(filename, SUFFIX_JSONLD)
         THEN Reserialize(content, mime_type)
    ELSE IF mime_type = MIME_TTL /\ PyEndsWith(filename, SUFFIX_TTL)
         THEN Return("file content", mime_type)
    ELSE IF mime_type = MIME_JSONSCHEMA \/ mime_type = MIME_JSON
         THEN Render(content, "json schema", mime_type)
    ELSE Return("None", "")

\* resolve, and the 'result is None' test of get_schema
resolve(accept_header, path) ==
    LET mime_type == negotiate(accept_header)
        filename == map_filename(path)
    IN  IF filename = None THEN Raise("NotFoundException")
        ELSE LET result == convert(path, filename[1], fs[RealName(filename[1])], mime_type)
             IN  IF result.raises = "" /\ result.content = "None"
                 THEN Raise("NotFoundException") ELSE result

Response(handler, status, body, media_type) ==
    [handler |-> handler, status |-> status, body |-> body, media_type |-> media_type]

\* the error response of an except clause of get_schema: an HTML page when the
\* Accept header mentions text/html, JSON otherwise
ErrorResponse(accept_header, status, guarded) ==
    IF accept_header = None /\ ~guarded
    THEN Response("get_schema", 500, "AttributeError", "")
    ELSE IF accept_header # None /\ MentionsHtml(accept_header)
    THEN Response("get_schema", status, "error page", MIME_HTML)
    ELSE Response("get_schema", status, "err_msg", MIME_JSON)

\* the response of get_schema
SchemaResponse(schema_path, accept_header) ==
    IF schema_path = <<>> THEN Response("get_schema", 307, "/welcome/", "")
    ELSE
    LET path == IF schema_path[Len(schema_path)] = "/"
                THEN PySlice(schema_path, 0, Len(schema_path) - 1) ELSE schema_path
        result == resolve(accept_header, path)
    IN  CASE result.raises = "" ->
                 Response("get_schema", 200, result.content, result.mime_type)
          [] result.raises = "BadSchemaException" ->
                 ErrorResponse(accept_header, 406, TRUE)
          [] result.raises = "NotFoundException" ->
                 ErrorResponse(accept_header, 404, FALSE)
          [] result.raises = "ConflictingPropertyException" ->
                 ErrorResponse(accept_header, 422, FALSE)
          [] OTHER -> Response("get_schema", 500, result.raises, "")

\* the schema paths of the requests of the model
RequestPaths ==
    { <<"p">>, <<"p", "/">>, <<"p", "/", "q">>, <<"p", "/", "A">>, <<"z">>, <<>> }

\* the server answers requests between startup and shutdown
Serving == initPc = "up"

get_schema(schema_path, accept_header) ==
    /\ Serving
    /\ iter = None
    /\ response = None
    /\ response' = Some(SchemaResponse(schema_path, accept_header))
    /\ UNCHANGED <<appVars, fsVars, storeVars, initPc, hkVars, iter, vetted, verdicts, ekgHist>>

\* the client reads the response
Receive ==
    /\ response # None
    /\ response' = None
    /\ UNCHANGED <<appVars, fsVars, storeVars, initPc, hkVars, iter, vetted, verdicts, ekgHist>>

----------------------------------------------------------------------------
(* POST /validate/{schema_path}: validate, get_schema_graph and              *)
(* validate_infer_model                                                      *)

\* the path get_schema resolves: the schema path without a trailing '/'
Stripped(schema_path) ==
    IF schema_path[Len(schema_path)] = "/"
    THEN PySlice(schema_path, 0, Len(schema_path) - 1) ELSE schema_path

\* the host and port of the URL of the requests
Netloc == <<"n">>

Http == <<"h", "t", "t", "p", ":", "/", "/">>

\* IRIs of the data: of the schemas c/p.ttl and c/p/q.jsonld as this server
\* serves them, of a vocabulary in an ignored namespace, of a schema on
\* another server, and one that is no http(s) IRI
IriP == Http \o Netloc \o <<"/", "p">>
IriQ == Http \o Netloc \o <<"/", "p", "/", "q">>
IriW == Http \o <<"w", "/", "t">>
IriR == Http \o <<"r", ".", "o", "/", "s">>
Urn == <<"u", "r", "n", ":", "x">>

IGNORE_NAMESPACES == << <<"w">> >>

\* a in b, of strings
In(a, b) == PyFind(b, a) > -1

\* the data of a request: whether it parses, its triples in the order the
\* graph yields them, and whether it conforms to the schemas
Data(parses, triples, conforms) ==
    [parses |-> parses, triples |-> triples, conforms |-> conforms]

DataGraphs ==
    { Data(FALSE, <<>>, FALSE),
      Data(TRUE, <<>>, TRUE),
      Data(TRUE, << <<IriP, IriW, Urn>> >>, TRUE),
      Data(TRUE, << <<IriP, IriW, Urn>> >>, FALSE),
      Data(TRUE, << <<Urn, IriW, Urn>> >>, TRUE),
      Data(TRUE, << <<IriP, IriW, IriQ>> >>, TRUE),
      Data(TRUE, << <<IriQ, IriW, Urn>>, <<IriP, IriW, IriP>> >>, TRUE),
      Data(TRUE, << <<IriP, IriW, IriR>> >>, TRUE) }

\* the values of the Content-Type header, "" when there is none
ContentTypes == {MIME_TTL, MIME_JSONLD, "text/text", ""}

\* the schema paths of the requests to validate: of local schemas, of no
\* schema, the name of this server, a schema on another server, and none
ValidatePaths ==
    { <<"p">>, <<"p", "/", "q">>, <<"z">>, Netloc, <<"r", ".", "o", "/", "s">>, <<>> }

\* elems[0] of schema_path.split("/")
FirstElem(schema_path) ==
    IF In(<<"/">>, schema_path)
    THEN PySlice(schema_path, 0, PyFind(schema_path, <<"/">>)) ELSE schema_path

\* the netloc with localhost and 127.0.0.1 exchanged: Netloc holds neither
alt_netloc == Netloc

\* schema_graph.parse(schema, format="ttl") of the body of the response of
\* get_schema: the re-serialized schema is Turtle, the content of a Turtle
\* file is if the file parses, the empty body of a redirect is the empty
\* Turtle document, the JSON of an error response is no Turtle
ParsesAsTurtle(schema_response, filename) ==
    CASE schema_response.status = 200 /\ schema_response.body = "serialized" -> TRUE
      [] schema_response.status = 200 /\ schema_response.body = "file content" ->
             fs[RealName(filename[1])].parses
      [] schema_response.status = 307 -> TRUE
      [] OTHER -> FALSE

\* mod_schema_path of get_schema_graph: the schema path after the netloc
mod_schema_path(schema_path) ==
    IF In(Netloc, schema_path)
    THEN PySlice(schema_path, PyFind(schema_path, Netloc) + Len(Netloc), Len(schema_path))
    ELSE IF In(alt_netloc, schema_path)
    THEN PySlice(schema_path, PyFind(schema_path, alt_netloc) + Len(alt_netloc),
                 Len(schema_path))
    ELSE schema_path

\* the test of get_schema_graph for the host name of some other server
IsRemote(schema_path) ==
    /\ \/ In(<<".">>, FirstElem(schema_path))
       \/ In(<<":">>, FirstElem(schema_path))
       \/ In(<<"l", "o", "c", "a", "l", "h", "o", "s", "t">>, FirstElem(schema_path))
    /\ ~In(Netloc, schema_path)
    /\ ~In(alt_netloc, schema_path)

\* the graph of a schema, or the exception raised for it
Graph(raises, graph) == [raises |-> raises, graph |-> graph]

\* the local branch of get_schema_graph, from the response of get_schema on:
\* only 404 is taken for a failure, every other body is parsed as Turtle
LocalGraph(schema_response, filename) ==
    IF schema_response.status = 500 THEN Graph(schema_response.body, "")
    ELSE IF schema_response.status = 404 THEN Graph("Exception", "")
    ELSE IF ~ParsesAsTurtle(schema_response, filename) THEN Graph("BadSyntax", "")
    ELSE IF schema_response.status = 307 THEN Graph("", "empty")
    ELSE Graph("", "schema")

\* get_schema_graph: the graph it returns ("schema", or "empty" for a
\* document without triples), or the exception it raises; fetched says
\* whether the other server delivers the schema.  'http://' before a schema
\* path that is an IRI already makes no URL of a schema.
get_schema_graph(schema_path, fetched) ==
    IF IsRemote(schema_path)
    THEN IF fetched /\ ~In(Http, schema_path) THEN Graph("", "schema")
         ELSE Graph("Exception", "")
    ELSE LocalGraph(SchemaResponse(mod_schema_path(schema_path),
                                   Some(<<Item(MIME_TTL, None, FALSE)>>)),
                    map_filename(Stripped(mod_schema_path(schema_path))))

\* what validate answers, with the schemas its report is about
Answer(status, body, media_type, about) ==
    [response |-> Response("validate", status, body, media_type), reports |-> about]

Unprocessable == Answer(422, "err_msg", MIME_JSON, None)

\* validate with a schema path: ran says whether pyshacl.validate returns
validate_against(schema_path, data, fetched, ran) ==
    IF get_schema_graph(schema_path, fetched).raises # "" THEN Unprocessable
    ELSE IF ~ran THEN Unprocessable
    ELSE Answer(200, "report", MIME_JSONLD, Some(<<schema_path>>))

\* the strings of the triples in the order of the first loop of
\* validate_infer_model
RECURSIVE Terms(_)
Terms(triples) ==
    IF triples = <<>> THEN <<>> ELSE Head(triples) \o Terms(Tail(triples))

\* the first loop: the terms that begin with "http", each once
RECURSIVE Collect(_, _)
Collect(terms, schema_graphs) ==
    IF terms = <<>> THEN schema_graphs
    ELSE LET iri == Head(terms)
         IN  IF /\ PySlice(PyLower(iri), 0, 4) = <<"h", "t", "t", "p">>
                /\ \A k \in 1..Len(schema_graphs) : schema_graphs[k] # iri
             THEN Collect(Tail(terms), Append(schema_graphs, iri))
             ELSE Collect(Tail(terms), schema_graphs)

\* the second loop, from the k-th ignored namespace on: the list without the
\* IRIs that contain it
RECURSIVE Ignore(_, _)
Ignore(schema_graphs, k) ==
    IF k > Len(IGNORE_NAMESPACES) THEN schema_graphs
    ELSE Ignore(SelectSeq(schema_graphs, LAMBDA g : ~In(IGNORE_NAMESPACES[k], g)), k + 1)

\* the schemas validate_infer_model infers from the data
Inferred(data) == Ignore(Collect(Terms(data.triples), <<>>), 1)

\* the variable s when validate_infer_model returns: the last element of the
\* last loop that ran, None when s was never bound
LastS(data) ==
    LET schema_graphs == Inferred(data)
        copy == Ignore(Collect(Terms(data.triples), <<>>), Len(IGNORE_NAMESPACES))
    IN  IF schema_graphs # <<>> THEN Some(schema_graphs[Len(schema_graphs)])
        ELSE IF Len(IGNORE_NAMESPACES) > 0 /\ copy # <<>> THEN Some(copy[Len(copy)])
        ELSE IF data.triples # <<>> THEN Some(data.triples[Len(data.triples)][1])
        ELSE None

\* validate_infer_model: the graphs of all inferred schemas are resolved,
\* then validate is called with s
validate_infer_model(data, fetched, ran) ==
    IF \E k \in 1..Len(Inferred(data)) :
           get_schema_graph(Inferred(data)[k], fetched).raises # ""
    THEN Unprocessable
    ELSE IF LastS(data) = None THEN Unprocessable
    ELSE validate_against(LastS(data)[1], data, fetched, ran)

\* the answer of validate
ValidateAnswer(schema_path, content_type, data, fetched, ran) ==
    IF content_type \notin {MIME_TTL, MIME_JSONLD}
    THEN Answer(415, "err_msg", MIME_JSON, None)
    ELSE IF ~data.parses THEN Unprocessable
    ELSE IF schema_path = <<>> THEN validate_infer_model(data, fetched, ran)
    ELSE validate_against(schema_path, data, fetched, ran)

\* the response is sent
Respond(answer) ==
    /\ response' = Some(answer.response)
    /\ reports' = answer.reports

validate(schema_path, content_type, data, fetched, ran) ==
    /\ Serving
    /\ iter = None
    /\ response = None
    /\ Respond(ValidateAnswer(schema_path, content_type, data, fetched, ran))
    /\ UNCHANGED <<model_graph, outside, call, ret, routeVars, fsVars, storeVars, initPc, hkVars, iter,
                   vetted, verdicts, ekgHist>>

\* the client reads the response of validate
ReceiveReport ==
    /\ response # None
    /\ response' = None
    /\ reports' = None
    /\ UNCHANGED <<model_graph, outside, call, ret, routeVars, fsVars, storeVars, initPc, hkVars, iter,
                   vetted, verdicts, ekgHist>>

----------------------------------------------------------------------------
(* GET /badschemas/: get_badschema_list.  The handler runs on the event     *)
(* loop's thread while BadSchemaHousekeeping runs on its own, so the        *)
(* housekeeper's steps interleave with the iterations of the loop.          *)

\* next() of the iterator over BAD_SCHEMAS.keys(): RuntimeError when the size
\* of the dict is not the one the iterator remembers, the end of the loop and
\* the response, or the next key
IterAdvance(it) ==
    IF Len(BAD_SCHEMAS) # it.used
    THEN /\ response' = Some(Response("get_badschema_list", 500, "RuntimeError", ""))
         /\ iter' = None
    ELSE IF it.pos >= Len(BAD_SCHEMAS)
    THEN /\ response' = Some(Response("get_badschema_list", 200, it.result, MIME_JSON))
         /\ iter' = None
    ELSE /\ iter' = Some([it EXCEPT !.k = Some(BAD_SCHEMAS[it.pos + 1].key), !.pos = @ + 1])
         /\ UNCHANGED response

\* 'for k in BAD_SCHEMAS.keys()': the iterator is made, remembering the size of
\* the dict, and asked for the first key
IterStart ==
    /\ Serving
    /\ iter = None
    /\ response = None
    /\ IterAdvance([used |-> Len(BAD_SCHEMAS), pos |-> 0, k |-> None, result |-> <<>>])
    /\ UNCHANGED <<appVars, fsVars, storeVars, initPc, hkVars, vetted, verdicts, ekgHist>>

\* the loop asks the iterator for the next key
IterNext ==
    /\ iter # None
    /\ iter[1].k = None
    /\ IterAdvance(iter[1])
    /\ UNCHANGED <<appVars, fsVars, storeVars, initPc, hkVars, vetted, verdicts, ekgHist>>

\* result["badschemas"].append({"name": k, "reason": BAD_SCHEMAS[k]}): KeyError
\* when the key is gone
IterLookup ==
    /\ iter # None
    /\ iter[1].k # None
    /\ LET k == iter[1].k[1] IN
       IF k \notin Keys(BAD_SCHEMAS)
       THEN /\ response' = Some(Response("get_badschema_list", 500, "KeyError", ""))
            /\ iter' = None
       ELSE /\ iter' = Some([iter[1] EXCEPT
                    !.k = None,
                    !.result = Append(@, [name |-> k,
                                          reason |-> BAD_SCHEMAS[DictGet(BAD_SCHEMAS, k)].reason])])
            /\ UNCHANGED response
    /\ UNCHANGED <<appVars, fsVars, storeVars, initPc, hkVars, vetted, verdicts, ekgHist>>

get_badschema_list == IterStart \/ IterNext \/ IterLookup

----------------------------------------------------------------------------
(* POST /query/ *)

Queries == {"SELECT", "malformed"}

\* EKG.query(query) inside the try block: the rows of the graph the name EKG
\* refers to, or an exception
QueryResponse(q) ==
    IF EKG = None \/ q = "malformed"
    THEN Response("query", 406, "err_msg", MIME_JSON)
    ELSE Response("query", 200, EKG[1], MIME_JSON)

query(q) ==
    /\ Serving
    /\ iter = None
    /\ response = None
    /\ response' = Some(QueryResponse(q))
    /\ observed' = IF pc["ekg"] = "rebuild" /\ QueryResponse(q).status = 200
                   THEN Some(QueryResponse(q).body) ELSE observed
    /\ UNCHANGED <<appVars, fsVars, storeVars, initPc, hkVars, iter, vetted, verdicts, ekgOld>>

----------------------------------------------------------------------------
(* Calls of single functions, on any content root *)

\* the paths get_schema passes to resolve
Paths == { <<"p">>, <<"p", "/", "q">>, <<"p", "/", "A">>, <<"z">> }

\* a call, given as the record of the function and its argument, that returns
\* the result, given as a record too
Call(c, result) ==
    /\ call = None
    /\ call' = Some(c)
    /\ ret' = Some(result)
    /\ UNCHANGED <<fsVars, storeVars, initPc, hkVars, reqVars, vetted, verdicts, ekgHist, outside, routeVars, reports, model_graph>>

CallMapFilename == \E path \in Paths : Call([fn |-> "map_filename", path |-> path], [file |-> map_filename(path)])

\* the items of the Accept headers of the calls: media types, also in capitals
\* and unsupported ones, without q or with q=0.5 or q=1.0, with and without
\* another parameter
HeaderItemsOfCalls ==
    {Item(m, q, other) : m \in {"text/html", "text/turtle", "TEXT/HTML", "image/png"},
                         q \in {None, Some(5), Some(10)},
                         other \in BOOLEAN}

\* the Accept headers of the calls: None, the empty header, and the headers
\* of one or two items
HeadersOfCalls ==
    {None, Some(<<Item("", None, FALSE)>>)}
        \cup {Some(<<a>>) : a \in HeaderItemsOfCalls}
        \cup {Some(<<a, b>>) : a \in HeaderItemsOfCalls, b \in HeaderItemsOfCalls}

CallNegotiate ==
    \E accept_header \in HeadersOfCalls :
        Call([fn |-> "negotiate", accept_header |-> accept_header],
             [mime |-> negotiate(accept_header)])

CallRanked ==
    \E accept_header \in HeadersOfCalls :
        Call([fn |-> "get_ranked_mime_types", accept_header |-> accept_header],
             [ranked |-> get_ranked_mime_types(accept_header)])

\* list.remove(r): the list without the first element equal to r
ListRemove(list, r) ==
    LET i == CHOOSE k \in 1..Len(list) :
                 list[k] = r /\ \A j \in 1..(k - 1) : list[j] # r
    IN  SubSeq(list, 1, i - 1) \o SubSeq(list, i + 1, Len(list))

\* 'for r in ROUTES: if r not in app.routes: app.routes.append(r)', from the
\* i-th element of saved on
RECURSIVE Restore(_, _, _)
Restore(list, saved, i) ==
    IF i > Len(saved) THEN list
    ELSE IF \E k \in 1..Len(list) : list[k] = saved[i]
         THEN Restore(list, saved, i + 1)
         ELSE Restore(Append(list, saved[i]), saved, i + 1)

\* the route the given features switch off
SwitchedOff(f, r) ==
    \/ f = "validate" /\ r.name = "get_schema"
    \/ f = "serve" /\ r.name = "validate"

\* 'for r in app.routes: if ...: app.routes.remove(r)': the iterator of a
\* list goes by position, so after a removal it passes over the element that
\* has moved to the position of the removed one
RECURSIVE Disable(_, _, _)
Disable(list, f, i) ==
    IF i > Len(list) THEN list
    ELSE IF SwitchedOff(f, list[i])
         THEN Disable(ListRemove(list, list[i]), f, i + 1)
         ELSE Disable(list, f, i + 1)

\* the values of the command line option --features, and another string
Features == {"all", "serve", "validate", "other"}

\* activate_routes without the loop that restores the original list
activate_routes_unrestored(f) ==
    /\ call = None
    /\ ROUTES' = IF ROUTES = None THEN Some(routes) ELSE ROUTES
    /\ routes' = Disable(routes, f, 1)
    /\ features' = Some(f)
    /\ UNCHANGED <<fsVars, storeVars, initPc, hkVars, reqVars, vetted, verdicts, ekgHist,
                   outside, call, ret, reports, model_graph>>

activate_routes(f) ==
    /\ call = None
    /\ ROUTES' = IF ROUTES = None THEN Some(routes) ELSE ROUTES
    /\ routes' = Disable(Restore(routes, ROUTES'[1], 1), f, 1)
    /\ features' = Some(f)
    /\ UNCHANGED <<fsVars, storeVars, initPc, hkVars, reqVars, vetted, verdicts, ekgHist,
                   outside, call, ret, reports, model_graph>>

\* does the path of the route match the URL, given as its segments
PathMatches(r, url) ==
    LET n == Len(r.prefix)
    IN  /\ Len(url) >= n
        /\ SubSeq(url, 1, n) = r.prefix
        /\ CASE r.tail = "" -> Len(url) = n
              [] r.tail = "name" -> Len(url) = n + 1 /\ url[n + 1] # ""
              [] r.tail = "path" -> Len(url) > n

\* str.rstrip("/") of a URL, by segments
RECURSIVE RStripSlash(_)
RStripSlash(url) ==
    IF Len(url) > 0 /\ url[Len(url)] = ""
    THEN RStripSlash(SubSeq(url, 1, Len(url) - 1))
    ELSE url

\* the routing of a request over the list of routes: the first route whose
\* path and method match handles it; else a route whose path matches makes it
\* 405; else, if the URL matches a route with its trailing slash toggled, it
\* is redirected; else 404
Dispatch(list, method, url) ==
    LET full == {i \in 1..Len(list) : PathMatches(list[i], url) /\ list[i].method = method}
        partial == {i \in 1..Len(list) : PathMatches(list[i], url)}
        toggled == IF url[Len(url)] = "" THEN RStripSlash(url) ELSE Append(url, "")
    IN  IF full # {} THEN list[CHOOSE i \in full : \A j \in full : i <= j].name
        ELSE IF partial # {} THEN "405"
        ELSE IF url # <<"">> /\ \E i \in 1..Len(list) : PathMatches(list[i], toggled)
             THEN "307"
        ELSE "404"

\* the URLs of the requests that are routed, by segments: schema paths, the
\* paths of other routes with and without their trailing slash, and "/"
Urls ==
    { <<"p">>, <<"p", "q">>, <<"p", "">>, <<"validate", "p">>, <<"validate", "">>,
      <<"validate">>, <<"welcome", "">>, <<"welcome">>, <<"static", "x">>,
      <<"query", "">>, <<"">> }

Methods == {"GET", "POST"}

CallDispatch ==
    \E method \in Methods, url \in Urls :
        Call([fn |-> "route", method |-> method, url |-> url],
             [answer |-> Dispatch(routes, method, url)])

\* the caller goes on
Done ==
    /\ call # None
    /\ call' = None
    /\ ret' = None
    /\ UNCHANGED <<fsVars, storeVars, initPc, hkVars, reqVars, vetted, verdicts, ekgHist, outside, routeVars, reports, model_graph>>

----------------------------------------------------------------------------

Environment ==
    \/ \E f \in FileNames, c \in Contents : WriteFile(f, c)
    \/ \E f \in FileNames : DeleteFile(f)

\* the steps of a housekeeper's cycle that SchemaHousekeeping defines
Cycle(h) ==
    \/ LoopTest(h)
    \/ WalkList(h)
    \/ check_schema(h)

BadThread == Cycle("bad") \/ BadBegin \/ BadPerform

SearchThread == Cycle("search") \/ SearchBegin \/ SearchPerform

EKGThread == Cycle("ekg") \/ EKGBegin \/ add_schema

Serve ==
    \E schema_path \in RequestPaths, accept_header \in AcceptHeaders :
        get_schema(schema_path, accept_header)

Query == \E q \in Queries : query(q)

\* The specifications.  A housekeeper that a specification leaves out is a
\* thread that is started and not scheduled; a handler it leaves out is never
\* called.  The quarantine map is written by BadSchemaHousekeeping alone and
\* the content root by the environment alone.

\* the quarantine map: startup, BadSchemaHousekeeping and the handlers reading the map
NextBad == Environment \/ StartThread \/ BadThread \/ Serve \/ get_badschema_list \/ Receive
SpecBad == Init /\ [][NextBad]_vars

\* the knowledge graph: startup, BadSchemaHousekeeping, EKGHouseKeeping and queries
NextEKG == Environment \/ StartThread \/ BadThread \/ EKGThread \/ Query \/ Receive
SpecEKG == Init /\ [][NextEKG]_vars

\* the search index: startup, BadSchemaHousekeeping and SearchIndexHousekeeping
NextSearch == Environment \/ StartThread \/ BadThread \/ SearchThread
SpecSearch == Init /\ [][NextSearch]_vars

\* startup and shutdown of the three housekeepers, while schema files are deleted
NextStop ==
    \/ \E f \in FileNames : DeleteFile(f)
    \/ StartThread \/ BadThread \/ SearchThread \/ EKGThread
    \/ shutdown
SpecStop == Init /\ [][NextStop]_vars

\* single functions, called on any content root, with and without a namesake
\* of the content root beside it
InitCalls == Start /\ outside \in BOOLEAN
NextCalls == CallMapFilename \/ CallNegotiate \/ CallRanked \/ Done
SpecCalls == InitCalls /\ [][NextCalls]_vars

\* a request to validate: its schema path, Content-Type and data, whether
\* another server delivers its schema, and whether pyshacl.validate returns
Request(schema_path, content_type, data, fetched, ran) ==
    [schema_path |-> schema_path, content_type |-> content_type, data |-> data,
     fetched |-> fetched, ran |-> ran]

\* the requests to validate: every schema path with every data in Turtle,
\* and of them the data of one triple with every Content-Type, with a schema
\* the other server does not deliver, and with a validation that fails
ValidateRequests ==
    LET one == Data(TRUE, << <<IriP, IriW, Urn>> >>, TRUE)
    IN  {Request(schema_path, MIME_TTL, data, TRUE, TRUE) :
            schema_path \in ValidatePaths, data \in DataGraphs}
        \cup {Request(schema_path, content_type, one, TRUE, TRUE) :
                 schema_path \in ValidatePaths, content_type \in ContentTypes}
        \cup {Request(schema_path, MIME_JSONLD, one, fetched, ran) :
                 schema_path \in ValidatePaths, fetched \in BOOLEAN, ran \in BOOLEAN}

\* validation: startup, BadSchemaHousekeeping, changes of the content root
\* and the requests to validate
Validate ==
    \E r \in ValidateRequests :
        validate(r.schema_path, r.content_type, r.data, r.fetched, r.ran)

NextValidate == Environment \/ StartThread \/ BadThread \/ Validate \/ ReceiveReport
SpecValidate == Init /\ [][NextValidate]_vars

\* the features are switched, any number of times, and requests are routed
NextRoutes == (\E f \in Features : activate_routes(f)) \/ CallDispatch \/ Done
SpecRoutes == InitCalls /\ [][NextRoutes]_vars

----------------------------------------------------------------------------
(* The quarantine map *)

\* C1: when the file that the schema path of a quarantined file maps to is in
\* BAD_SCHEMAS as get_schema converts it, the response is 406, for every
\* Accept header, and never a 200 response carrying the content of the schema:
\* no step that yields another response is get_schema of that path.
C1_QuarantinedIs406 ==
    [][(response = None /\ response' # None /\ response'[1].status # 406) =>
          \A f \in Keys(BAD_SCHEMAS) :
              map_filename(get_schema_path(f)) = Some(f) =>
                  \A accept_header \in AcceptHeaders :
                      ~get_schema(get_schema_path(f), accept_header)]_vars

\* a quarantined schema was requested, and the request got as far as convert
C1_Witness ==
    /\ response # None
    /\ response[1].handler = "get_schema"
    /\ response[1].status = 406
    /\ response[1].media_type = MIME_HTML

\* C2: once perform_housekeeping_on(L) of BadSchemaHousekeeping has returned,
\* every file of L has been checked, and it is in BAD_SCHEMAS if and only if
\* in that pass it failed to parse or no subject, predicate or object of its
\* triples contained BASE_URL + its schema path, compared in lower case.
C2_QuarantineLifecycle ==
    pc["bad"] # "perform" =>
        \A f \in FileNames :
            /\ verdicts[f] # "pending"
            /\ verdicts[f] = "failed" => f \in Keys(BAD_SCHEMAS)
            /\ verdicts[f] \in {"passed", "folded"} => f \notin Keys(BAD_SCHEMAS)

\* a pass after startup has taken a corrected file out of quarantine while
\* another file stays in it
C2_Witness ==
    /\ pc["bad"] = "wait"
    /\ clock > 0
    /\ \E f \in FileNames : verdicts[f] \in {"passed", "folded"} /\ mtime[f] > 0
    /\ BAD_SCHEMAS # <<>>

\* C2 as stated, with the strings compared as they are: a file of L is in
\* BAD_SCHEMAS if and only if it failed to parse or none of its triples
\* contained BASE_URL + its schema path.
C2_LiteralContainment ==
    pc["bad"] # "perform" =>
        \A f \in FileNames :
            /\ verdicts[f] \in {"failed", "folded"} => f \in Keys(BAD_SCHEMAS)
            /\ verdicts[f] = "passed" => f \notin Keys(BAD_SCHEMAS)

\* C5: no housekeeper thread is started before the synchronous first pass of
\* BadSchemaHousekeeping in init() has returned, and when the first thread is
\* started BAD_SCHEMAS holds exactly the files that failed in that pass.
C5_FirstPassBeforeThreads ==
    /\ (\E h \in Housekeepers : started[h]) =>
           /\ initPc \notin {"pass", "failed"}
           /\ last_execution_time["bad"] # None
    /\ (initPc = "start" /\ ~started["bad"]) =>
           /\ pc["bad"] = "new"
           /\ schemas["bad"] = <<>>
           /\ \A f \in FileNames : verdicts[f] # "pending"
           /\ Keys(BAD_SCHEMAS) = {f \in FileNames : verdicts[f] = "failed"}

\* all threads are started, after a first pass that has quarantined a file
C5_Witness ==
    /\ initPc = "up"
    /\ \A h \in Housekeepers : started[h]
    /\ pc["search"] = "run"
    /\ BAD_SCHEMAS # <<>>

\* the entry of a file in the quarantine map: None, or its reason
Entry(d, f) == IF f \in Keys(d) THEN Some(d[DictGet(d, f)].reason) ELSE None

\* C10: a step of perform_housekeeping_on of BadSchemaHousekeeping changes the
\* entry of the file it handles only, according to the check of that file
\* alone, and goes on with the rest of the list; no other step changes an entry.
C10_QuarantineIsolation ==
    [][ /\ \A g \in FileNames :
             Entry(BAD_SCHEMAS', g) # Entry(BAD_SCHEMAS, g) =>
                 BadPerform /\ Head(schemas["bad"]) = g
        /\ BadPerform =>
             LET f == Head(schemas["bad"]) IN
             /\ (f \in Keys(BAD_SCHEMAS')) <=> FailsCheck(f, fs[f])
             /\ schemas'["bad"] = Tail(schemas["bad"])
      ]_vars

\* a file has failed its check while the other file of the pass is not quarantined
C10_Witness ==
    /\ \E f \in FileNames : verdicts[f] = "failed"
    /\ \E g \in FileNames : verdicts[g] = "passed" /\ g \notin Keys(BAD_SCHEMAS)

\* C7: get_badschema_list never fails while BadSchemaHousekeeping adds and
\* removes entries (each pair of its result is read from the map entry by
\* entry, so a result it returns holds entries of the map only).
C7_BadSchemaListNeverFails ==
    (response # None /\ response[1].handler = "get_badschema_list") =>
        response[1].status = 200

----------------------------------------------------------------------------
(* The knowledge graph *)

\* C3: a query that runs while EKGHouseKeeping replaces a knowledge graph sees
\* the graph from before the rebuild or the graph the rebuild ends with.
C3_AtomicReplace ==
    (pc["ekg"] # "rebuild" /\ ekgOld # None /\ observed # None) =>
        observed[1] \in {ekgOld[1], EKG[1]}

\* the step ingests the content of the file into the knowledge graph
Ingests(f) ==
    /\ add_schema
    /\ Head(listing["ekg"]) = f
    /\ f \notin Keys(BAD_SCHEMAS)
    /\ fs[f] # Absent

\* the step puts the content of the file into the search index
Indexes(f) ==
    /\ SearchPerform
    /\ Head(schemas["search"]) = f
    /\ f \notin Keys(BAD_SCHEMAS)
    /\ fs[f] # Absent

\* C4: SearchIndexHousekeeping and EKGHouseKeeping only take up the content of
\* files that BadSchemaHousekeeping has checked since their last modification.
C4_OnlyVettedFiles ==
    [][\A f \in FileNames : (Ingests(f) \/ Indexes(f)) => f \in vetted]_vars

\* the triples of the existing schema files that are not quarantined
Corpus ==
    UNION {fs[f].triples : f \in {g \in FileNames : fs[g] # Absent /\ g \notin Keys(BAD_SCHEMAS)}}

\* the server is up and the two housekeepers are running
KeepingHouse ==
    /\ initPc = "up"
    /\ pc["bad"] # "crashed"
    /\ pc["ekg"] # "crashed"

\* the housekeeper has seen every change of the content root: it waits for its
\* next cycle, and no file is modified since its last_execution_time
UpToDate(h) ==
    /\ pc[h] = "wait"
    /\ \A f \in FileNames : fs[f] # Absent => ~IsModified(last_execution_time[h], mtime[f])

\* the schema files have stopped changing and both housekeepers have seen
\* every change: from here on no cycle finds a modified file, and neither the
\* quarantine map nor the knowledge graph changes any more
Settled ==
    /\ clock = MaxMods
    /\ KeepingHouse
    /\ UpToDate("bad")
    /\ UpToDate("ekg")

\* C6: once the schema files have stopped changing and the housekeepers have
\* seen every change, the knowledge graph is the union of the triples of the
\* existing files that are not quarantined.
C6_SettledIsCorpus ==
    Settled => EKG = Some(Corpus)

----------------------------------------------------------------------------
(* Errors and shutdown of the housekeepers *)

\* C8: an error with one schema file never ends the thread of a housekeeper.
C8_ThreadsSurviveErrors ==
    \A h \in Housekeepers : started[h] => pc[h] # "crashed"

Terminated(h) == pc[h] \in {"done", "crashed"}

\* the position of a thread in run(), counted from the end
Rank(h) ==
    CASE pc[h] = "walk" -> 6
      [] pc[h] = "stat" -> 5
      [] pc[h] = "perform" -> 4
      [] pc[h] = "rebuild" -> 3
      [] pc[h] \in {"run", "wait"} -> 1
      [] OTHER -> 0

\* what a thread has left to do until it leaves run() once its event is set:
\* the files still to stat weigh more than the files still to handle
Remaining(h) ==
    Rank(h) * (3 * Cardinality(FileNames) + 1) + 2 * Len(listing[h]) + Len(schemas[h])

\* C9: once shutdown() has set the event of every housekeeper, a thread starts
\* no cycle any more, except the one whose loop test it has passed already;
\* until it has left run() it always has a step to take (stopped.wait returns
\* at once), and every step it takes brings it nearer to the end of run().
C9_CleanStop ==
    /\ [](stopped["bad"] /\ ~Terminated("bad") => ENABLED BadThread)
    /\ [](stopped["search"] /\ ~Terminated("search") => ENABLED SearchThread)
    /\ [](stopped["ekg"] /\ ~Terminated("ekg") => ENABLED EKGThread)
    /\ [][\A h \in Housekeepers :
             stopped[h] =>
                 /\ pc[h] # "walk" => pc'[h] # "walk"
                 /\ Remaining(h)' <= Remaining(h)
                 /\ (pc'[h] # pc[h] \/ listing'[h] # listing[h] \/ schemas'[h] # schemas[h])
                        => Remaining(h)' < Remaining(h)]_vars
    /\ [][(BadThread => <<pc["bad"], listing["bad"], schemas["bad"]>>' # <<pc["bad"], listing["bad"], schemas["bad"]>>)
          /\ (SearchThread => <<pc["search"], listing["search"], schemas["search"]>>' # <<pc["search"], listing["search"], schemas["search"]>>)
          /\ (EKGThread => <<pc["ekg"], listing["ekg"], schemas["ekg"]>>' # <<pc["ekg"], listing["ekg"], schemas["ekg"]>>)]_vars

\* shutdown() has stopped the housekeepers while EKGHouseKeeping was in a
\* rebuild, which it finishes; BadSchemaHousekeeping has left run() already
C9_Witness ==
    /\ initPc = "down"
    /\ pc["bad"] = "done"
    /\ pc["ekg"] = "rebuild"

----------------------------------------------------------------------------
(* Path mapping *)

\* the path without its last segment
Parent(path) ==
    IF Occurrences(path, <<"/">>) = {} THEN <<>>
    ELSE PySlice(path, 0, PyRFind(path, <<"/">>))

\* the existing files among content root + path + suffix and content root +
\* (path without its last segment) + suffix
CandidateSet(path) ==
    {name \in {CONTENT_DIR \o stem \o SUPPORTED_SUFFIXES[i] :
                  stem \in {path, Parent(path)}, i \in DOMAIN SUPPORTED_SUFFIXES} :
        isfile(name)}

\* C11: map_filename(path) returns the one existing file among content root +
\* path + suffix and content root + (path without its last segment) + suffix,
\* and None when there is none or more than one.
C11_OneCandidateOrNone ==
    (call # None /\ call[1].fn = "map_filename") =>
        ret[1].file = IF Cardinality(CandidateSet(call[1].path)) = 1
                      THEN Some(CHOOSE name \in CandidateSet(call[1].path) : TRUE)
                      ELSE None

\* C12: for every schema file that exists in the content root, whatever other
\* schema files exist in it, map_filename(its schema path) returns that file.
C12_ExistingFileMapsToItself ==
    (call # None /\ call[1].fn = "map_filename" /\ ~outside) =>
        \A F \in FileNames :
            (fs[F] # Absent /\ call[1].path = get_schema_path(F)) => ret[1].file = Some(F)

----------------------------------------------------------------------------
(* Content negotiation *)

\* the first element of the list that is in the set; None when there is none
FirstOf(list, set) ==
    LET hits == {i \in DOMAIN list : list[i] \in set}
    IN  IF hits = {} THEN None
        ELSE Some(list[CHOOSE i \in hits : \A j \in hits : i <= j])

\* the media types of the list in lower case
Lowered(list) == [i \in DOMAIN list |-> MimeLower(list[i])]

\* the supported set
Supported == {MIME_JSONLD, MIME_TTL, MIME_HTML, MIME_JSONSCHEMA}

\* the media type found, or the default media type
OrDefault(found) == IF found = None THEN MIME_DEFAULT ELSE found[1]

\* C13: negotiate returns the first media type of the ranked list that is in
\* the supported set, and the default media type when the list holds none;
\* a media type is in the supported set as it is written or, read more
\* liberally, in lower case, and then it is the member of the set that is returned.
C13_FirstSupportedOrDefault ==
    (call # None /\ call[1].fn = "negotiate") =>
        LET ranked == get_ranked_mime_types(call[1].accept_header)
        IN  ret[1].mime \in {OrDefault(FirstOf(ranked, Supported)),
                             OrDefault(FirstOf(Lowered(ranked), Supported))}

\* C14: every media type of the header that gives no q is ranked with q = 1.0,
\* also when it has other parameters: the ranked list begins with the media
\* types of q = 1.0 in header order, and no media type of the header is missing.
C14_NoQMeansOne ==
    (call # None /\ call[1].fn = "get_ranked_mime_types" /\ call[1].accept_header # None) =>
        LET items == call[1].accept_header[1]
            ranked == ret[1].ranked
            first == SelectSeq(items, LAMBDA it : it.q \in {None, Some(10)})
        IN  /\ Len(ranked) = Len(items)
            /\ \A i \in DOMAIN first : ranked[i] = first[i].mime

----------------------------------------------------------------------------
(* Errors of GET /{schema_path} *)

\* C15: get_schema of a path that map_filename resolves to no file answers
\* 404, whatever the Accept header is, also when there is none: no step that
\* yields another response is get_schema of such a path.
C15_UnmappedIs404 ==
    [][(response = None /\ response' # None /\ response'[1].status # 404) =>
          \A schema_path \in RequestPaths \ {<<>>} :
              map_filename(Stripped(schema_path)) = None =>
                  \A accept_header \in AcceptHeaders :
                      ~get_schema(schema_path, accept_header)]_vars

\* C16: no error escapes get_schema: whatever the content root and the
\* quarantine map hold, a request (here: one that has an Accept header) is
\* answered with 200, a redirect, 404, 406 or 422; no step that yields another
\* response is get_schema.
C16_NoErrorEscapes ==
    [][(response = None /\ response' # None
            /\ response'[1].status \notin {200, 307, 404, 406, 422}) =>
          \A schema_path \in RequestPaths, accept_header \in AcceptHeaders \ {None} :
              ~get_schema(schema_path, accept_header)]_vars

\* C17: an error response of get_schema (404, 406 or 422) has an HTML body
\* exactly when the Accept header of the request negotiates to text/html, and
\* a JSON body otherwise.
C17_ErrorBodyAsNegotiated ==
    [][(response = None /\ response' # None
            /\ response'[1].status \in {404, 406, 422}) =>
          \A schema_path \in RequestPaths, accept_header \in AcceptHeaders :
              get_schema(schema_path, accept_header) =>
                  /\ response'[1].media_type \in {MIME_HTML, MIME_JSON}
                  /\ response'[1].media_type = MIME_HTML
                        <=> negotiate(accept_header) = MIME_HTML]_vars

----------------------------------------------------------------------------
(* Feature toggling *)

Active(name) == \E i \in 1..Len(routes) : routes[i].name = name

\* the URLs at which get_schema serves schemas when all routes are active
SchemaUrls == {url \in Urls : Dispatch(AppRoutes, "GET", url) = "get_schema"}

\* the schema URLs that the path of no other route matches, as they are or
\* with the trailing slash toggled
OwnSchemaUrls ==
    {url \in SchemaUrls :
        \A i \in 1..Len(AppRoutes) :
            AppRoutes[i].name # "get_schema" =>
                /\ ~PathMatches(AppRoutes[i], url)
                /\ ~PathMatches(AppRoutes[i], Append(url, ""))
                /\ ~PathMatches(AppRoutes[i], RStripSlash(url))}

\* after a call activate_routes(f) the routes are active that f alone says,
\* each once, and the routes other than get_schema and validate answer as
\* they do in the original list
LastCallDecides ==
    /\ Active("get_schema") <=> features[1] # "validate"
    /\ Active("validate") <=> features[1] # "serve"
    /\ \A i \in 1..Len(AppRoutes) :
          AppRoutes[i].name \notin {"get_schema", "validate"} =>
              /\ Active(AppRoutes[i].name)
              /\ \A method \in Methods, url \in Urls :
                    Dispatch(AppRoutes, method, url) = AppRoutes[i].name
                        => Dispatch(routes, method, url) = AppRoutes[i].name
    /\ \A i, j \in 1..Len(routes) : routes[i] = routes[j] => i = j
    /\ features[1] # "serve" => Dispatch(routes, "POST", <<"validate", "p">>) = "validate"
    /\ features[1] = "serve" => Dispatch(routes, "POST", <<"validate", "p">>) = "405"
    /\ features[1] # "validate" =>
          \A url \in SchemaUrls : Dispatch(routes, "GET", url) = "get_schema"

\* C18: after any sequence of activate_routes calls the last call alone decides:
\* get_schema is active iff the features are not 'validate', validate iff they
\* are not 'serve', every other route is active; POST /validate gives 405
\* under 'serve' and answers otherwise; under 'validate' GET gives 404 on
\* every schema path that the path of no other route matches.
C18_LastCallDecides ==
    features # None =>
        /\ LastCallDecides
        /\ features[1] = "validate" =>
              \A url \in OwnSchemaUrls : Dispatch(routes, "GET", url) = "404"

\* C18 as stated: under 'validate' GET gives 404 on every schema path.
C18_EverySchemaPathIs404 ==
    features # None =>
        /\ LastCallDecides
        /\ features[1] = "validate" =>
              \A url \in SchemaUrls : Dispatch(routes, "GET", url) = "404"

\* the features were switched to 'validate' and back to 'all', which has
\* moved get_schema behind validate in the list, and a GET on a schema path
\* is answered by get_schema again
C18_Witness ==
    /\ features = Some("all")
    /\ ROUTES # None /\ routes # ROUTES[1]
    /\ call # None /\ call[1].fn = "route" /\ call[1].method = "GET"
    /\ call[1].url \in OwnSchemaUrls
    /\ ret[1].answer = "get_schema"

----------------------------------------------------------------------------
(* Validation *)

\* the schema graph of the schema path can be resolved: the other server
\* delivers it, or the path names, after the name of this server, a schema
\* file of this server that is not quarantined and parses
Resolvable(schema_path, fetched) ==
    IF IsRemote(schema_path) THEN fetched
    ELSE /\ mod_schema_path(schema_path) # <<>>
         /\ map_filename(Stripped(mod_schema_path(schema_path))) # None
         /\ LET filename == map_filename(Stripped(mod_schema_path(schema_path)))[1]
            IN  /\ filename \notin Keys(BAD_SCHEMAS)
                /\ fs[RealName(filename)].parses

\* the status the request is to be answered with
Expected(r) ==
    IF r.content_type \notin {MIME_TTL, MIME_JSONLD} THEN 415
    ELSE IF ~r.data.parses \/ ~Resolvable(r.schema_path, r.fetched) \/ ~r.ran THEN 422
    ELSE 200

\* C19: validate with a schema path answers 415 when the Content-Type is
\* neither text/turtle nor application/ld+json, else 422 when the data does
\* not parse, the schema graph cannot be resolved or the validation fails,
\* else 200 with the report: no step that yields another status is validate
\* of such a request.
C19_ValidateStatus ==
    [][(response = None /\ response' # None /\ response'[1].handler = "validate") =>
          \A r \in ValidateRequests :
              (r.schema_path # <<>> /\ response'[1].status # Expected(r)) =>
                  ~validate(r.schema_path, r.content_type, r.data, r.fetched, r.ran)]_vars

\* the terms of the data graph
TermSet(data) == {Terms(data.triples)[k] : k \in 1..Len(Terms(data.triples))}

\* the http(s) IRIs among the terms of the data graph that contain none of
\* the ignored namespaces
InferredSchemas(data) ==
    {iri \in TermSet(data) :
        /\ \/ PySlice(iri, 0, 7) = Http
           \/ PySlice(iri, 0, 8) = <<"h", "t", "t", "p", "s", ":", "/", "/">>
        /\ \A k \in 1..Len(IGNORE_NAMESPACES) : ~In(IGNORE_NAMESPACES[k], iri)}

\* C20: in inference mode the result of a successful validation holds one
\* report for each inferred schema, the inferred schemas being the distinct
\* http(s) IRIs of the data graph outside the ignored namespaces: no step
\* that yields 200 with reports about other schemas is validate without a
\* schema path.
C20_OneReportPerInferredSchema ==
    [][(response = None /\ response' # None /\ response'[1].handler = "validate"
            /\ response'[1].status = 200) =>
          \A r \in ValidateRequests :
              (/\ r.schema_path = <<>>
               /\ {reports'[1][k] : k \in 1..Len(reports'[1])} # InferredSchemas(r.data)) =>
                  ~validate(r.schema_path, r.content_type, r.data, r.fetched, r.ran)]_vars

----------------------------------------------------------------------------
(* Detection of modifications *)

\* C24: no modification is missed: when BadSchemaHousekeeping has completed a
\* cycle and waits, every existing file whose present content no cycle has had
\* in its list of changed schemas is still modified with respect to
\* last_execution_time, so that the next cycle lists it.
C24_NoModificationMissed ==
    pc["bad"] = "wait" =>
        \A f \in FileNames :
            (fs[f] # Absent /\ f \notin vetted) =>
                IsModified(last_execution_time["bad"], mtime[f])

----------------------------------------------------------------------------
(* The reasons of the quarantine map *)

\* C25: the reason of a quarantine entry is the failure of the most recent
\* check: when BadSchemaHousekeeping has checked a file and the file is in the
\* map, the reason of its entry is the one this check has failed for.
C25_ReasonIsCurrent ==
    [][BadPerform =>
          \A i \in DOMAIN BAD_SCHEMAS' :
              BAD_SCHEMAS'[i].key = Head(schemas["bad"]) =>
                  BAD_SCHEMAS'[i].reason
                      = CheckSchemaFile(Head(schemas["bad"]), fs[Head(schemas["bad"])])]_vars

----------------------------------------------------------------------------
(* The keys of the quarantine map *)

\* C29: after a completed cycle of BadSchemaHousekeeping every key of the
\* quarantine map names an existing file.  Stated for the cycles that begin
\* with the content root unchanged since the time stamp of the cycle before,
\* so that a missing file was gone before the cycle began: such a cycle lists
\* no changed schema, completes at once, and is to leave no key of a missing
\* file.
C29_KeysNameExistingFiles ==
    [][(BadBegin /\ last_execution_time["bad"] = Some(clock)
            /\ pc'["bad"] \in {"wait", "new"}) =>
          \A i \in DOMAIN BAD_SCHEMAS' : fs'[BAD_SCHEMAS'[i].key] # Absent]_vars

----------------------------------------------------------------------------
(* Negotiation and conversion *)

\* C28: whatever the Accept header, negotiate returns one of the supported
\* media types as convert spells them (or the default), and get_schema of a
\* path that maps to one file, not quarantined and well-formed, with this
\* header is not answered 404.
C28_AlwaysABranch ==
    (call # None /\ call[1].fn = "negotiate") =>
        /\ ret[1].mime \in Supported \cup {MIME_DEFAULT}
        /\ \A path \in Paths, f \in FileNames :
              (/\ map_filename(path) = Some(f)
               /\ f \notin Keys(BAD_SCHEMAS)
               /\ fs[f].parses) =>
                  SchemaResponse(path, call[1].accept_header).status # 404

----------------------------------------------------------------------------
(* The model of a schema: the property shapes of shapiro_model.py *)

\* the IRI of a term of SHACL, 'http://www.w3.org/ns/shacl#' + name
Shacl(name) == <<"s", "h", "#">> \o name

ShMinCount == Shacl(<<"m", "i", "n", "C", "o", "u", "n", "t">>)
ShMaxCount == Shacl(<<"m", "a", "x", "C", "o", "u", "n", "t">>)
ShQualifiedMinCount ==
    Shacl(<<"q", "u", "a", "l", "i", "f", "i", "e", "d", "M", "i", "n", "C", "o", "u", "n", "t">>)
ShQualifiedMaxCount ==
    Shacl(<<"q", "u", "a", "l", "i", "f", "i", "e", "d", "M", "a", "x", "C", "o", "u", "n", "t">>)

\* the IRIs of the constraints of the calls, in the order of Python's strings
ConstraintIris == <<ShMaxCount, ShMinCount, ShQualifiedMaxCount, ShQualifiedMinCount>>

\* ShaclConstraint(parent, constraint_iri, value, is_enum), value as int(value)
ShaclConstraint(constraint_iri, value) ==
    [constraint_iri |-> constraint_iri, value |-> value]

\* the triples ?property ?constraint ?value of a property shape that the
\* calls draw from
ConstraintsOfCalls ==
    {ShaclConstraint(ShMinCount, v) : v \in 0..2}
        \cup {ShaclConstraint(ShMaxCount, v) : v \in 1..2}
        \cup {ShaclConstraint(ShQualifiedMinCount, 1), ShaclConstraint(ShQualifiedMaxCount, 2)}

\* the place of an IRI in ConstraintIris
IriRank(iri) == CHOOSE i \in 1..Len(ConstraintIris) : ConstraintIris[i] = iri

\* the results of ShaclProperty.get_constraints: the distinct constraints of
\* the property shape, of which there are up to three here, after
\* 'constraints.sort(key=lambda c: c.constraint_iri)'
ConstraintLists ==
    {cs \in UNION {[1..n -> ConstraintsOfCalls] : n \in 0..3} :
        /\ \A i, j \in 1..Len(cs) : i # j => cs[i] # cs[j]
        /\ \A i, j \in 1..Len(cs) :
              i < j => IriRank(cs[i].constraint_iri) <= IriRank(cs[j].constraint_iri)}

\* 'list(filter(lambda c: c.constraint_iri.lower().endswith(suffix), constraints))'
FilterEndsWith(constraints, suffix) ==
    SelectSeq(constraints, LAMBDA c : PyEndsWith(PyLower(c.constraint_iri), suffix))

\* ShaclProperty.is_required, on the result of get_constraints
is_required(constraints) ==
    LET minCount == FilterEndsWith(constraints, <<"m", "i", "n", "c", "o", "u", "n", "t">>)
    IN  IF Len(minCount) = 1 THEN minCount[1].value >= 1 ELSE FALSE

\* ShaclProperty.is_array, on the result of get_constraints
is_array(constraints) ==
    LET maxCount == FilterEndsWith(constraints, <<"m", "a", "x", "c", "o", "u", "n", "t">>)
    IN  IF Len(maxCount) = 1 THEN maxCount[1].value > 1 ELSE FALSE

CallIsRequired ==
    \E constraints \in ConstraintLists :
        Call([fn |-> "is_required", constraints |-> constraints],
             [required |-> is_required(constraints)])

CallIsArray ==
    \E constraints \in ConstraintLists :
        Call([fn |-> "is_array", constraints |-> constraints],
             [array |-> is_array(constraints)])


----------------------------------------------------------------------------
(* C23 *)

\* the values of the constraints of this IRI that the property shape has
ValuesOf(constraints, iri) ==
    {constraints[i].value : i \in {k \in 1..Len(constraints) : constraints[k].constraint_iri = iri}}

\* C23: is_required() is true iff the property shape has a minCount
\* constraint whose value is at least 1, and is_array() is true iff it has a
\* maxCount constraint whose value is greater than 1, whatever the number of
\* minCount and maxCount constraints the shape carries.
C23_CountsDecide ==
    /\ (call # None /\ call[1].fn = "is_required") =>
          (ret[1].required <=> \E v \in ValuesOf(call[1].constraints, ShMinCount) : v >= 1)
    /\ (call # None /\ call[1].fn = "is_array") =>
          (ret[1].array <=> \E v \in ValuesOf(call[1].constraints, ShMaxCount) : v > 1)


----------------------------------------------------------------------------
(* The JSON-Schema type of a property shape *)

\* TYPE_MAP, the keys in the order of the dict
TYPE_MAP ==
    <<
      [key |-> <<"s", "t", "r", "i", "n", "g">>, type |-> "string"],
      [key |-> <<"b", "o", "o", "l", "e", "a", "n">>, type |-> "boolean"],
      [key |-> <<"d", "e", "c", "i", "m", "a", "l">>, type |-> "number"],
      [key |-> <<"i", "n", "t", "e", "g", "e", "r">>, type |-> "integer"],
      [key |-> <<"f", "l", "o", "a", "t">>, type |-> "number"],
      [key |-> <<"d", "a", "t", "e">>, type |-> "string"],
      [key |-> <<"t", "i", "m", "e">>, type |-> "string"],
      [key |-> <<"d", "a", "t", "e", "T", "i", "m", "e">>, type |-> "string"],
      [key |-> <<"d", "a", "t", "e", "T", "i", "m", "e", "S", "t", "a", "m", "p">>, type |-> "string"],
      [key |-> <<"g", "M", "o", "n", "t", "h">>, type |-> "string"],
      [key |-> <<"g", "D", "a", "y">>, type |-> "string"],
      [key |-> <<"g", "Y", "e", "a", "r", "M", "o", "n", "t", "h">>, type |-> "string"],
      [key |-> <<"g", "M", "o", "n", "t", "h", "D", "a", "y">>, type |-> "string"],
      [key |-> <<"d", "u", "r", "a", "t", "i", "o", "n">>, type |-> "string"],
      [key |-> <<"y", "e", "a", "r", "M", "o", "n", "t", "h", "D", "u", "r", "a", "t", "i", "o", "n">>, type |-> "string"],
      [key |-> <<"d", "a", "y", "T", "i", "m", "e", "D", "u", "r", "a", "t", "i", "o", "n">>, type |-> "string"],
      [key |-> <<"s", "h", "o", "r", "t">>, type |-> "integer"],
      [key |-> <<"i", "n", "t">>, type |-> "integer"],
      [key |-> <<"l", "o", "n", "g">>, type |-> "integer"],
      [key |-> <<"u", "n", "s", "i", "g", "n", "e", "d", "B", "y", "t", "e">>, type |-> "integer"],
      [key |-> <<"u", "n", "s", "i", "g", "n", "e", "d", "S", "h", "o", "r", "t">>, type |-> "integer"],
      [key |-> <<"u", "n", "s", "i", "g", "n", "e", "d", "I", "n", "t">>, type |-> "integer"],
      [key |-> <<"u", "n", "s", "i", "g", "n", "e", "d", "L", "o", "n", "g">>, type |-> "integer"],
      [key |-> <<"p", "o", "s", "i", "t", "i", "v", "e", "I", "n", "t", "e", "g", "e", "r">>, type |-> "integer"],
      [key |-> <<"n", "o", "n", "N", "e", "g", "a", "t", "i", "v", "e", "I", "n", "t", "e", "g", "e", "r">>, type |-> "integer"],
      [key |-> <<"n", "e", "g", "a", "t", "i", "v", "e", "I", "n", "t", "e", "g", "e", "r">>, type |-> "integer"],
      [key |-> <<"n", "o", "n", "P", "o", "s", "i", "t", "i", "v", "e", "I", "n", "t", "e", "g", "e", "r">>, type |-> "integer"],
      [key |-> <<"h", "e", "x", "B", "i", "n", "a", "r", "y">>, type |-> "string"],
      [key |-> <<"b", "a", "s", "e", "6", "4", "B", "i", "n", "a", "r", "y">>, type |-> "string"],
      [key |-> <<"l", "a", "n", "g", "u", "a", "g", "e">>, type |-> "string"],
      [key |-> <<"n", "o", "r", "m", "a", "l", "i", "z", "e", "d", "S", "t", "r", "i", "n", "g">>, type |-> "string"],
      [key |-> <<"t", "o", "k", "e", "n">>, type |-> "string"],
      [key |-> <<"N", "M", "T", "O", "K", "E", "N">>, type |-> "string"],
      [key |-> <<"N", "a", "m", "e">>, type |-> "string"],
      [key |-> <<"N", "C", "N", "a", "m", "e">>, type |-> "string"]
    >>

\* the IRI of a datatype of XML Schema, 'http://www.w3.org/2001/XMLSchema#' + name
Xsd(name) == <<"x", "s", "d", "#">> \o name

\* the keys of TYPE_MAP from the k-th on whose lower case ends t.lower(),
\* 'for k in TYPE_MAP.keys(): if t.lower().endswith(k.lower())'
Matching(t, k) ==
    {i \in k..Len(TYPE_MAP) : PyEndsWith(PyLower(t), PyLower(TYPE_MAP[i].key))}

\* the (type, format) pair that get_json_schema_type returns for the key k
TypeAndFormat(k) ==
    [type |-> TYPE_MAP[k].type,
     format |-> CASE TYPE_MAP[k].key = <<"d", "a", "t", "e">> -> Some("date")
                  [] TYPE_MAP[k].key = <<"t", "i", "m", "e">> -> Some("time")
                  [] TYPE_MAP[k].key = <<"d", "a", "t", "e", "T", "i", "m", "e">> -> Some("date-time")
                  [] TYPE_MAP[k].key = <<"d", "a", "t", "e", "T", "i", "m", "e", "S", "t", "a", "m", "p">> -> Some("date-time")
                  [] OTHER -> None]

\* ShaclProperty.get_json_schema_type of a property shape whose xsd_datatype()
\* is t and whose class_datatype() is None
get_json_schema_type(t) ==
    IF t # None /\ Matching(t[1], 1) # {}
    THEN Some(TypeAndFormat(CHOOSE i \in Matching(t[1], 1) : \A j \in Matching(t[1], 1) : i <= j))
    ELSE None

\* the datatypes of the calls: the datatype of every key of TYPE_MAP, a
\* datatype that is not in the table, and no datatype
DatatypesOfCalls ==
    {Some(Xsd(TYPE_MAP[i].key)) : i \in 1..Len(TYPE_MAP)}
        \cup {Some(Xsd(<<"a", "n", "y", "U", "R", "I">>)), None}

CallGetJsonSchemaType ==
    \E t \in DatatypesOfCalls :
        Call([fn |-> "get_json_schema_type", datatype |-> t],
             [schema_type |-> get_json_schema_type(t)])

----------------------------------------------------------------------------
(* C27 *)

\* C27: for every XSD datatype named by a key of TYPE_MAP, get_json_schema_type()
\* returns the JSON-Schema type the table gives for that key, with format
\* 'date' for date, 'time' for time, 'date-time' for dateTime and
\* dateTimeStamp, and no format for every other key.
C27_TypeOfTheTable ==
    (call # None /\ call[1].fn = "get_json_schema_type") =>
        \A k \in 1..Len(TYPE_MAP) :
            call[1].datatype = Some(Xsd(TYPE_MAP[k].key)) =>
                ret[1].schema_type = Some(TypeAndFormat(k))

----------------------------------------------------------------------------
(* The model of a schema: node shapes and classes of shapiro_model.py *)

\* the labels of the elements of the schemas of the calls, in the order of
\* Python's strings; an element is named by its label
Labels == <<"AShape", "CShape", "P1", "P2", "P4", "X", "Y", "Z">>

LabelRank(l) == CHOOSE i \in 1..Len(Labels) : Labels[i] = l

\* the list of the elements of a set after 'sort(key=lambda c: c.label)'
RECURSIVE SortedByLabel(_)
SortedByLabel(S) ==
    IF S = {} THEN <<>>
    ELSE LET first == CHOOSE x \in S : \A y \in S : LabelRank(x) <= LabelRank(y)
         IN  <<first>> \o SortedByLabel(S \ {first})

\* the graphs of the calls: Y and Z may be subclasses of X, Z of Y; AShape
\* may target X and Y, CShape Y and Z; AShape may declare P1 and P2, CShape
\* P4 and P1
Graphs ==
    [subClassOf : SUBSET {<<"Y", "X">>, <<"Z", "X">>, <<"Z", "Y">>},
     targetClass : SUBSET {<<"AShape", "X">>, <<"AShape", "Y">>,
                           <<"CShape", "Y">>, <<"CShape", "Z">>},
     property : SUBSET {<<"AShape", "P1">>, <<"AShape", "P2">>,
                        <<"CShape", "P4">>, <<"CShape", "P1">>}]

\* the solutions of '?subclass rdfs:subClassOf+ ?superclass' that a walk from
\* the classes of frontier adds to seen
RECURSIVE PathPlus(_, _, _)
PathPlus(graph, frontier, seen) ==
    LET next == {e[2] : e \in {d \in graph.subClassOf : d[1] \in frontier}} \ seen
    IN  IF next = {} THEN seen ELSE PathPlus(graph, next, seen \cup next)

\* RdfClass.get_superclasses of the class iri, without the transitive
\* query: a mutation
get_superclasses_direct(graph, iri, transitive) ==
    SortedByLabel({e[2] : e \in {d \in graph.subClassOf : d[1] = iri}})

\* RdfClass.get_superclasses of the class iri: the IRIs of the RdfClass
\* objects of the list
get_superclasses(graph, iri, transitive) ==
    IF transitive
    THEN SortedByLabel(PathPlus(graph, {iri}, {}))
    ELSE SortedByLabel({e[2] : e \in {d \in graph.subClassOf : d[1] = iri}})

\* RdfClass.get_nodeshapes of the class iri
get_nodeshapes(graph, iri) ==
    SortedByLabel({e[1] : e \in {d \in graph.targetClass : d[2] = iri}})

\* NodeShape.get_classes of the shape iri
get_classes(graph, iri) ==
    SortedByLabel({e[2] : e \in {d \in graph.targetClass : d[1] = iri}})

\* NodeShape.get_shacl_properties of the shape iri
get_shacl_properties(graph, iri) ==
    SortedByLabel({e[2] : e \in {d \in graph.property : d[1] = iri}})

\* the concatenation of the lists of a list
RECURSIVE Concat(_)
Concat(lists) == IF lists = <<>> THEN <<>> ELSE Head(lists) \o Concat(Tail(lists))

\* the RdfClass objects that 'for c in self.get_classes():
\* c.get_superclasses(True)' makes, in the order of their making: each call
\* makes new objects, and the class defines neither __eq__ nor __hash__, so
\* the set clazzes holds every one of them
Clazzes(graph, iri) ==
    Concat([i \in 1..Len(get_classes(graph, iri)) |->
               get_superclasses(graph, get_classes(graph, iri)[i], TRUE)])

\* the orders in which 'for c in clazzes' may go through a set of n objects
Orders(n) == {f \in [1..n -> 1..n] : \A i, j \in 1..n : f[i] = f[j] => i = j}

\* the property shapes of the node shapes of a class, 'for s in shapes:
\* properties = properties + s.get_shacl_properties()'
PropertiesOfClass(graph, iri) ==
    Concat([i \in 1..Len(get_nodeshapes(graph, iri)) |->
               get_shacl_properties(graph, get_nodeshapes(graph, iri)[i])])

\* NodeShape.get_inherited_shacl_properties of the shape iri, the set
\* clazzes gone through in the given order: the IRIs of the ShaclProperty
\* objects of the list
get_inherited_shacl_properties(graph, iri, order) ==
    Concat([i \in 1..Len(Clazzes(graph, iri)) |->
               PropertiesOfClass(graph, Clazzes(graph, iri)[order[i]])])

CallGetInheritedShaclProperties ==
    \E graph \in Graphs :
        \E order \in Orders(Len(Clazzes(graph, "CShape"))) :
            Call([fn |-> "get_inherited_shacl_properties", graph |-> graph, shape |-> "CShape"],
                 [properties |-> get_inherited_shacl_properties(graph, "CShape", order)])

----------------------------------------------------------------------------
(* C22 *)

Classes == {"X", "Y", "Z"}

\* a chain of rdfs:subClassOf triples leads from the class sub to the class
\* super
IsSuperclass(graph, sub, super) ==
    \E n \in 2..(Cardinality(Classes) + 1) :
        \E chain \in [1..n -> Classes] :
            /\ chain[1] = sub
            /\ chain[n] = super
            /\ \A i \in 1..(n - 1) : <<chain[i], chain[i + 1]>> \in graph.subClassOf

\* the property shapes of the node shapes that target a transitive
\* superclass of a class that the shape targets
InheritedSet(graph, shape) ==
    {e[2] : e \in {d \in graph.property :
                      \E t \in graph.targetClass, u \in graph.targetClass :
                          /\ t[1] = shape
                          /\ u[1] = d[1]
                          /\ IsSuperclass(graph, t[2], u[2])}}

\* the elements of a list
ElementsOf(list) == {list[i] : i \in 1..Len(list)}

\* C22: get_inherited_shacl_properties() returns exactly the property shapes
\* of the node shapes that target a class in the transitive closure of the
\* superclasses of the classes this shape targets.
C22_InheritanceClosure ==
    (call # None /\ call[1].fn = "get_inherited_shacl_properties") =>
        ElementsOf(ret[1].properties) = InheritedSet(call[1].graph, call[1].shape)

\* CShape on Z, Z is-a Y, Y is-a X, AShape on X declares P1 and P2, CShape
\* declares P4: P1 and P2 are inherited over two steps, P4 is not inherited
C22_Witness ==
    /\ call # None
    /\ call[1].fn = "get_inherited_shacl_properties"
    /\ call[1].graph = [subClassOf |-> {<<"Z", "Y">>, <<"Y", "X">>},
                        targetClass |-> {<<"AShape", "X">>, <<"CShape", "Z">>},
                        property |-> {<<"AShape", "P1">>, <<"AShape", "P2">>, <<"CShape", "P4">>}]
    /\ ret[1].properties = <<"P1", "P2">>

----------------------------------------------------------------------------
(* C30 *)

\* C30: get_inherited_shacl_properties() returns each inherited property
\* shape at most once, also when one node shape targets several of the
\* superclasses or when several classes targeted by the shape share a
\* superclass.
C30_AtMostOnce ==
    (call # None /\ call[1].fn = "get_inherited_shacl_properties") =>
        \A i, j \in 1..Len(ret[1].properties) :
            ret[1].properties[i] = ret[1].properties[j] => i = j

----------------------------------------------------------------------------
(* The JSON-Schema of a node shape *)

ShPath == Shacl(<<"p", "a", "t", "h">>)

\* the target properties of the property shapes of the requests
TargetProperties == {"age", "name"}

\* the property shapes of the schemas of the requests
PropertyShapes == {"P1", "P2", "P4"}

\* ShaclProperty.get_target_property, on the result of get_constraints
get_target_property(constraints) ==
    SelectSeq(constraints, LAMBDA c : PyEndsWith(c.constraint_iri, <<"p", "a", "t", "h">>))[1].value

\* the target property of the property shape iri, whose only constraint is
\* its sh:path
TargetOf(paths, iri) == get_target_property(<<ShaclConstraint(ShPath, paths[iri])>>)

\* the effective properties of the node shape iri as the renderer assembles
\* them: its own property shapes and the inherited ones
EffectiveProperties(graph, iri, order) ==
    get_shacl_properties(graph, iri) \o get_inherited_shacl_properties(graph, iri, order)

\* JsonSchemaRenderer.render_nodeshape of the shape iri: the conflict error
\* when two property shapes of the effective properties resolve to the same
\* target property, the JSON-Schema document otherwise
render_nodeshape(graph, paths, iri, order) ==
    IF \E i, j \in 1..Len(EffectiveProperties(graph, iri, order)) :
           /\ EffectiveProperties(graph, iri, order)[i] # EffectiveProperties(graph, iri, order)[j]
           /\ TargetOf(paths, EffectiveProperties(graph, iri, order)[i])
                 = TargetOf(paths, EffectiveProperties(graph, iri, order)[j])
    THEN Raise("ConflictingPropertyException")
    ELSE Return("json schema", "")

\* '{"content": ..., "mime_type": mime_type}' of what the renderer returns
WithMimeType(result, mime_type) ==
    IF result.raises = "" THEN Return(result.content, mime_type) ELSE result

\* convert for a file that parses and is quarantined or not, on the path of
\* the node shape iri
ConvertShape(quarantined, mime_type, graph, paths, iri, order) ==
    IF quarantined THEN Raise("BadSchemaException")
    ELSE IF mime_type = MIME_JSONSCHEMA \/ mime_type = MIME_JSON
         THEN WithMimeType(render_nodeshape(graph, paths, iri, order), mime_type)
    ELSE Return("another representation", mime_type)

\* the response of get_schema to the result of resolve
ResponseTo(result, accept_header) ==
    CASE result.raises = "" ->
             Response("get_schema", 200, result.content, result.mime_type)
      [] result.raises = "BadSchemaException" ->
             ErrorResponse(accept_header, 406, TRUE)
      [] result.raises = "NotFoundException" ->
             ErrorResponse(accept_header, 404, FALSE)
      [] result.raises = "ConflictingPropertyException" ->
             ErrorResponse(accept_header, 422, FALSE)
      [] OTHER -> Response("get_schema", 500, result.raises, "")

\* the graphs of the requests: AShape declares P1 and P2, CShape declares P4
GraphsOfRequests ==
    {graph \in Graphs :
        graph.property = {<<"AShape", "P1">>, <<"AShape", "P2">>, <<"CShape", "P4">>}}

\* the Accept headers of the requests: none, JSON-Schema, JSON-Schema and an
\* HTML page, Turtle
HeadersOfRequests ==
    {None,
     Some(<<Item(MIME_JSONSCHEMA, None, FALSE)>>),
     Some(<<Item(MIME_JSONSCHEMA, None, FALSE), Item(MIME_HTML, Some(5), FALSE)>>),
     Some(<<Item(MIME_TTL, None, FALSE)>>)}

\* GET of the path of CShape, in a schema file that parses
CallGetSchemaOfShape ==
    \E graph \in GraphsOfRequests, paths \in [PropertyShapes -> TargetProperties],
       accept_header \in HeadersOfRequests, quarantined \in BOOLEAN :
        \E order \in Orders(Len(Clazzes(graph, "CShape"))) :
            Call([fn |-> "get_schema", graph |-> graph, paths |-> paths, shape |-> "CShape",
                  accept_header |-> accept_header, quarantined |-> quarantined],
                 [response |-> ResponseTo(ConvertShape(quarantined, negotiate(accept_header),
                                                       graph, paths, "CShape", order),
                                          accept_header)])

----------------------------------------------------------------------------
(* C21 *)

\* the effective property set of the shape: its own property shapes and those
\* of the node shapes that target a transitive superclass of its classes
EffectiveSet(graph, shape) ==
    {e[2] : e \in {d \in graph.property : d[1] = shape}} \cup InheritedSet(graph, shape)

\* two property shapes of the effective property set resolve to the same
\* target property
Conflicting(graph, paths, shape) ==
    \E p, q \in EffectiveSet(graph, shape) : p # q /\ paths[p] = paths[q]

\* C21: when the effective property set of a node shape holds two property
\* shapes with the same target property, a JSON-Schema request for the shape,
\* its file not being quarantined, is answered 422 with the conflict error,
\* never with a JSON-Schema document.
C21_ConflictIs422 ==
    (/\ call # None
     /\ call[1].fn = "get_schema"
     /\ ~call[1].quarantined
     /\ negotiate(call[1].accept_header) \in {MIME_JSONSCHEMA, MIME_JSON}
     /\ Conflicting(call[1].graph, call[1].paths, call[1].shape)) =>
        ret[1].response.status = 422

----------------------------------------------------------------------------
(* The calls of the model of a schema *)

\* the functions of the model of a schema, called on any property shape and
\* any node shape, and the requests for the JSON-Schema of a node shape
NextShapes ==
    \/ CallIsRequired
    \/ CallIsArray
    \/ CallGetJsonSchemaType
    \/ CallGetInheritedShaclProperties
    \/ CallGetSchemaOfShape
    \/ Done

\* these calls and requests read the graph they are given, not the content
\* root, which is empty here
InitShapes == Init /\ fs = [f \in FileNames |-> Absent]
SpecShapes == InitShapes /\ [][NextShapes]_vars

----------------------------------------------------------------------------
(* The modeller: Model of modeller.py *)

\* the edges a model holds at most here
MaxEdges == 3

\* the entities and the property of the models, one object of each name
EntityNames == {"A", "B"}
PropertyNames == {"p"}

\* the values of Cardinality
Cardinalities == {"ZERO_TO_MANY", "ONE_TO_MANY", "ONE", "ZERO_TO_ONE"}

\* an edge of the MultiDiGraph with the object of its edge_type attribute: an
\* IsA, a HasProperty or a RelatedTo of a cardinality
Edge(source, target, class, cardinality) ==
    [source |-> source, target |-> target, class |-> class, cardinality |-> cardinality]

\* self.graph.out_edges(source): one pair for every edge from source, parallel
\* ones included
out_edges(source) == SelectSeq(model_graph.edges, LAMBDA e : e.source = source)

\* self.graph.get_edge_data(source, target): the parallel edges from source
\* to target, under the keys 0, 1, ...
get_edge_data(source, target) ==
    SelectSeq(model_graph.edges, LAMBDA e : e.source = source /\ e.target = target)

\* Model.__get_edge_object: the edge object when the two nodes are joined by
\* one edge, None when by several
Model_get_edge_object(source, target) ==
    IF Len(get_edge_data(source, target)) = 1
    THEN Some(get_edge_data(source, target)[1]) ELSE None

\* Model.__get_edges_from: the objects of the edges from source that are
\* instances of the class; isinstance(None, edge_type) is False
Model_get_edges_from(source, class) ==
    SelectSeq(out_edges(source),
              LAMBDA e : /\ Model_get_edge_object(e.source, e.target) # None
                         /\ Model_get_edge_object(e.source, e.target)[1].class = class)

\* 'list(map(lambda x: x.target, ...))'
Targets(edges) == [i \in 1..Len(edges) |-> edges[i].target]

\* Model.get_properties_of
Model_get_properties_of(entity) == Targets(Model_get_edges_from(entity, "HasProperty"))

\* Model.get_superclasses
RECURSIVE Model_get_superclasses(_, _)
Model_get_superclasses(entity, recursive) ==
    LET result == Targets(Model_get_edges_from(entity, "IsA"))
    IN  IF Len(result) > 0 /\ recursive
        THEN result \o Concat([i \in 1..Len(result) |-> Model_get_superclasses(result[i], recursive)])
        ELSE result

\* self.graph.add_node
add_node(n) ==
    /\ n \notin model_graph.nodes
    /\ model_graph' = [model_graph EXCEPT !.nodes = @ \cup {n}]
    /\ UNCHANGED <<fsVars, storeVars, initPc, hkVars, reqVars, vetted, verdicts, ekgHist,
                   outside, call, ret, routeVars, reports>>

\* self.graph.add_edge
add_edge(e) ==
    /\ Len(model_graph.edges) < MaxEdges
    /\ model_graph' = [model_graph EXCEPT !.edges = Append(@, e)]
    /\ UNCHANGED <<fsVars, storeVars, initPc, hkVars, reqVars, vetted, verdicts, ekgHist,
                   outside, call, ret, routeVars, reports>>

\* Model.entity
Model_entity == \E name \in EntityNames : add_node(name)

\* Model.property
Model_property == \E name \in PropertyNames : add_node(name)

\* Model.add_property
Model_add_property ==
    \E entity \in EntityNames \cap model_graph.nodes,
       property \in PropertyNames \cap model_graph.nodes :
        /\ ~\E i \in 1..Len(Model_get_properties_of(entity)) :
                Model_get_properties_of(entity)[i] = property
        /\ add_edge(Edge(entity, property, "HasProperty", ""))

\* Model.__relate
Model_relate(cardinality) ==
    \E source \in EntityNames \cap model_graph.nodes,
       target \in EntityNames \cap model_graph.nodes :
        add_edge(Edge(source, target, "RelatedTo", cardinality))

Model_relate_zero_to_many == Model_relate("ZERO_TO_MANY")
Model_relate_one_to_many == Model_relate("ONE_TO_MANY")
Model_relate_one == Model_relate("ONE")
Model_relate_zero_to_one == Model_relate("ZERO_TO_ONE")

\* the list superclasses of Model.is_a at its tests
Superclasses(sub_entity, super_entity) ==
    IF \E i \in 1..Len(Model_get_superclasses(sub_entity, TRUE)) :
           Model_get_superclasses(sub_entity, TRUE)[i] = super_entity
    THEN Model_get_superclasses(sub_entity, TRUE)
    ELSE Model_get_superclasses(sub_entity, TRUE) \o Model_get_superclasses(super_entity, TRUE)

\* Model.is_a raises 'Circular inheritance relationship is not allowed.'
IsARaises(sub_entity, super_entity) ==
    \/ \E i \in 1..Len(Superclasses(sub_entity, super_entity)) :
           Superclasses(sub_entity, super_entity)[i] = sub_entity
    \/ sub_entity = super_entity

\* Model.is_a, when it does not raise: the edge is added unless the super
\* entity is a superclass already
Model_is_a ==
    \E sub_entity \in EntityNames \cap model_graph.nodes,
       super_entity \in EntityNames \cap model_graph.nodes :
        /\ ~IsARaises(sub_entity, super_entity)
        /\ ~\E i \in 1..Len(Superclasses(sub_entity, super_entity)) :
                Superclasses(sub_entity, super_entity)[i] = super_entity
        /\ add_edge(Edge(sub_entity, super_entity, "IsA", ""))

\* any sequence of operations on a new Model
NextModeller ==
    \/ Model_entity
    \/ Model_property
    \/ Model_add_property
    \/ Model_relate_zero_to_many
    \/ Model_relate_one_to_many
    \/ Model_relate_one
    \/ Model_relate_zero_to_one
    \/ Model_is_a

InitModeller == Init /\ fs = [f \in FileNames |-> Absent]
SpecModeller == InitModeller /\ [][NextModeller]_vars

----------------------------------------------------------------------------
(* C26 *)

\* the IsA edges of the graph lead from the entity sub to the entity super
\* in one or more steps
IsAPath(sub, super) ==
    \E n \in 2..(Cardinality(EntityNames) + 1) :
        \E chain \in [1..n -> EntityNames] :
            /\ chain[1] = sub
            /\ chain[n] = super
            /\ \A i \in 1..(n - 1) :
                  \E k \in 1..Len(model_graph.edges) :
                      model_graph.edges[k] = Edge(chain[i], chain[i + 1], "IsA", "")

\* C26: after any sequence of operations of the Model the inheritance edges
\* form no cycle: no entity is its own transitive superclass.
C26_NoInheritanceCycle == \A e \in EntityNames : ~IsAPath(e, e)

====
